---- MODULE Spec2Model ----
(***************************************************************************)
(* Model of the resolver builder of openapi-graphql (getResolver and its   *)
(* helpers) together with the transport it calls and a query engine that   *)
(* invokes the synthesized resolvers of a query tree in any order.         *)
(*                                                                         *)
(* JavaScript strings are sequences of one-character strings, so that      *)
(* startsWith, split, replace, includes and sanitize are computed as the   *)
(* code computes them.  A JavaScript primitive is a record [k, s]: its     *)
(* type tag and the text ToString gives for it.  A plain object is a       *)
(* function from keys (character sequences) to values.                     *)
(***************************************************************************)
EXTENDS Integers, Sequences, FiniteSets, TLC

(***************************************************************************)
(* String literals of the source.                                          *)
(***************************************************************************)
S_url == <<"$", "u", "r", "l">>
S_method == <<"$", "m", "e", "t", "h", "o", "d">>
S_statusCode == <<"$", "s", "t", "a", "t", "u", "s", "C", "o", "d", "e">>
S_requestDot == <<"$", "r", "e", "q", "u", "e", "s", "t", ".">>
S_responseDot == <<"$", "r", "e", "s", "p", "o", "n", "s", "e", ".">>
S_body == <<"b", "o", "d", "y">>
S_query == <<"q", "u", "e", "r", "y">>
S_path == <<"p", "a", "t", "h">>
S_header == <<"h", "e", "a", "d", "e", "r">>
S_queryDot == S_query \o <<".">>
S_pathDot == S_path \o <<".">>
S_headerDot == S_header \o <<".">>
S_bodyHashSlash == S_body \o <<"#", "/">>
S_requestBody == S_requestDot \o S_body
S_requestBodyHash == S_requestBody \o <<"#">>
S_requestQuery == S_requestDot \o S_query
S_requestPath == S_requestDot \o S_path
S_requestHeader == S_requestDot \o S_header
S_responseBody == S_responseDot \o S_body
S_responseBodyHash == S_responseBody \o <<"#">>
S_responseQuery == S_responseDot \o S_query
S_responsePath == S_responseDot \o S_path
S_responseHeader == S_responseDot \o S_header
S_contentType == <<"c", "o", "n", "t", "e", "n", "t", "-", "t", "y", "p", "e">>
S_accept == <<"a", "c", "c", "e", "p", "t">>
S_cookie == <<"c", "o", "o", "k", "i", "e">>
S_Authorization == <<"A", "u", "t", "h", "o", "r", "i", "z", "a", "t", "i", "o", "n">>
S_UserAgent == <<"U", "s", "e", "r", "-", "A", "g", "e", "n", "t">>
S_applicationJson == <<"a", "p", "p", "l", "i", "c", "a", "t", "i", "o", "n", "/", "j", "s", "o", "n">>
S_textPlain == <<"t", "e", "x", "t", "/", "p", "l", "a", "i", "n">>
S_formUrlencoded == <<"a", "p", "p", "l", "i", "c", "a", "t", "i", "o", "n", "/", "x", "-", "w", "w", "w", "-", "f", "o", "r", "m", "-", "u", "r", "l", "e", "n", "c", "o", "d", "e", "d">>
S_undefined == <<"u", "n", "d", "e", "f", "i", "n", "e", "d">>
S_null == <<"n", "u", "l", "l">>
S_limit == <<"l", "i", "m", "i", "t">>
S_requestBodyArg == <<"r", "e", "q", "u", "e", "s", "t", "B", "o", "d", "y">>
S_accessToken == <<"a", "c", "c", "e", "s", "s", "_", "t", "o", "k", "e", "n">>
S_Basic == <<"B", "a", "s", "i", "c", " ">>
S_Bearer == <<"B", "e", "a", "r", "e", "r", " ">>
S_openapiToGraphql == <<"o", "p", "e", "n", "a", "p", "i", "-", "t", "o", "-", "g", "r", "a", "p", "h", "q", "l">>
S_get == <<"g", "e", "t">>
S_post == <<"p", "o", "s", "t">>
S_objectObject == <<"[", "o", "b", "j", "e", "c", "t", " ", "O", "b", "j", "e", "c", "t", "]">>

(* const RUNTIME_REFERENCES = ['header.', 'query.', 'path.', 'body'] *)
RUNTIME_REFERENCES == <<S_headerDot, S_queryDot, S_pathDot, S_body>>

(***************************************************************************)
(* Characters: the printable ASCII characters in code order, from 32.  The *)
(* two quotes, the backslash and the backquote are never used in a string  *)
(* of the model; their places are held by names no character equals.       *)
(***************************************************************************)
AsciiPrintable ==
  <<" ", "!", "dquote", "#", "$", "%", "&", "squote", "(", ")", "*", "+", ",", "-", ".", "/",
    "0", "1", "2", "3", "4", "5", "6", "7", "8", "9", ":", ";", "<", "=", ">", "?",
    "@", "A", "B", "C", "D", "E", "F", "G", "H", "I", "J", "K", "L", "M", "N", "O",
    "P", "Q", "R", "S", "T", "U", "V", "W", "X", "Y", "Z", "[", "bslash", "]", "^", "_",
    "bquote", "a", "b", "c", "d", "e", "f", "g", "h", "i", "j", "k", "l", "m", "n", "o",
    "p", "q", "r", "s", "t", "u", "v", "w", "x", "y", "z", "{", "|", "}", "~">>

CharCodes ==
  [ch \in {AsciiPrintable[i] : i \in 1..Len(AsciiPrintable)} |->
     31 + (CHOOSE i \in 1..Len(AsciiPrintable) : AsciiPrintable[i] = ch)]
CharCode(c) == CharCodes[c]
CharOf(n) == AsciiPrintable[n - 31]
IsDigit(c) == CharCode(c) >= CharCode("0") /\ CharCode(c) <= CharCode("9")
IsUpperCh(c) == CharCode(c) >= CharCode("A") /\ CharCode(c) <= CharCode("Z")
IsLowerCh(c) == CharCode(c) >= CharCode("a") /\ CharCode(c) <= CharCode("z")
IsAlnum(c) == IsDigit(c) \/ IsUpperCh(c) \/ IsLowerCh(c)
ToUpperCh(c) == IF IsLowerCh(c) THEN CharOf(CharCode(c) - (CharCode("a") - CharCode("A"))) ELSE c
ToLowerCh(c) == IF IsUpperCh(c) THEN CharOf(CharCode(c) + (CharCode("a") - CharCode("A"))) ELSE c

(***************************************************************************)
(* String.prototype operations used by the source.                         *)
(***************************************************************************)
StartsWith(s, p) == Len(s) >= Len(p) /\ SubSeq(s, 1, Len(p)) = p

(* The first position (counted from 1) at or after from where p occurs in s; 0 if none. *)
IndexFrom(s, p, from) ==
  LET hits == {i \in from..(Len(s) - Len(p) + 1) : SubSeq(s, i, i + Len(p) - 1) = p}
  IN  IF hits = {} THEN 0 ELSE CHOOSE i \in hits : \A j \in hits : i <= j

IndexOf(s, p) == IndexFrom(s, p, 1)
Includes(s, p) == IndexOf(s, p) > 0

(* s.split(sep)[1]: the text between the first and the second occurrence of *)
(* sep; undefined (ok = FALSE) when sep does not occur in s.                *)
SplitSecond(s, sep) ==
  LET i == IndexOf(s, sep)
      rest == SubSeq(s, i + Len(sep), Len(s))
      j == IndexOf(rest, sep)
  IN  IF i = 0 THEN [ok |-> FALSE, s |-> <<>>]
      ELSE [ok |-> TRUE, s |-> IF j = 0 THEN rest ELSE SubSeq(rest, 1, j - 1)]

(* GetSubstitution of String.prototype.replace for a string pattern: the    *)
(* replacement text with $$ and $& expanded (the patterns with a quote or a *)
(* backquote cannot be written with the characters of the model).           *)
RECURSIVE GetSubstitution(_, _)
GetSubstitution(matched, rep) ==
  IF rep = <<>> THEN <<>>
  ELSE IF rep[1] = "$" /\ Len(rep) >= 2 /\ rep[2] \in {"$", "&"}
       THEN (IF rep[2] = "$" THEN <<"$">> ELSE matched)
            \o GetSubstitution(matched, SubSeq(rep, 3, Len(rep)))
       ELSE <<rep[1]>> \o GetSubstitution(matched, Tail(rep))

(* s.replace(pat, rep) with a string pattern: the first occurrence only.    *)
ReplaceFirst(s, pat, rep) ==
  LET i == IndexOf(s, pat)
      before == SubSeq(s, 1, i - 1)
      after == SubSeq(s, i + Len(pat), Len(s))
  IN  IF i = 0 THEN s
      ELSE before \o GetSubstitution(pat, rep) \o after

(* value.search for either brace gives -1 *)
HasNoBrace(s) == \A i \in 1..Len(s) : s[i] \notin {"{", "}"}

(* value.match with the global pattern "an opening brace, any characters   *)
(* but a closing brace, a closing brace": the matches, left to right, none  *)
(* overlapping; the empty sequence stands for null (no match).              *)
RECURSIVE BraceMatches(_)
BraceMatches(s) ==
  LET open == IndexOf(s, <<"{">>)
      close == IF open = 0 THEN 0 ELSE IndexFrom(s, <<"}">>, open + 1)
  IN  IF open = 0 \/ close = 0 THEN <<>>
      ELSE <<SubSeq(s, open, close)>> \o BraceMatches(SubSeq(s, close + 1, Len(s)))

(***************************************************************************)
(* JavaScript values.  A primitive is [k, s]; s is what ToString gives.    *)
(* An object used as a value keeps only its tag and its ToString text.     *)
(***************************************************************************)
Str(s) == [k |-> "str", s |-> s]
Num(s) == [k |-> "num", s |-> s]
Undefined == [k |-> "undef", s |-> S_undefined]
Null == [k |-> "null", s |-> S_null]
ObjectValue == [k |-> "obj", s |-> S_objectObject]
JsToString(v) == v.s

(* ToBoolean: undefined, null, the empty string, 0 and false are falsy. *)
Truthy(v) ==
  ~ \/ v.k \in {"undef", "null"}
    \/ v.k = "str" /\ v.s = <<>>
    \/ v.k = "num" /\ v.s = <<"0">>
    \/ v.k = "bool" /\ v.s = <<"f", "a", "l", "s", "e">>

EmptyObject == <<>>

(* Object.assign(target, source) on plain objects. *)
ObjectAssign(target, source) ==
  [key \in (DOMAIN target) \cup (DOMAIN source) |->
     IF key \in DOMAIN source THEN source[key] ELSE target[key]]

(* obj[key] = value *)
SetKey(obj, key, value) ==
  [k2 \in (DOMAIN obj) \cup {key} |-> IF k2 = key THEN value ELSE obj[k2]]

(* obj[key], undefined when the key is absent *)
GetKey(obj, key) == IF key \in DOMAIN obj THEN obj[key] ELSE Undefined

(* JSON.parse(JSON.stringify(obj)) of an object of primitives: the keys    *)
(* whose value is undefined are dropped.                                   *)
JsonCopyObject(obj) ==
  [key \in {k2 \in DOMAIN obj : obj[k2].k # "undef"} |-> obj[key]]

(***************************************************************************)
(* Oas3Tools.sanitize and sanitizeObjectKeys (Naming & Sanitization        *)
(* Utility): camelCase lowers the first letter and capitalizes the letter  *)
(* after every run of non-alphanumeric characters; simple strips the       *)
(* non-alphanumeric characters; a leading digit is prefixed with "_".      *)
(***************************************************************************)
RECURSIVE CamelFold(_, _)
CamelFold(s, cap) ==
  IF s = <<>> THEN <<>>
  ELSE IF ~IsAlnum(s[1]) THEN CamelFold(Tail(s), TRUE)
  ELSE <<IF cap THEN ToUpperCh(s[1]) ELSE s[1]>> \o CamelFold(Tail(s), FALSE)

Uncapitalize(s) == IF s = <<>> THEN s ELSE <<ToLowerCh(s[1])>> \o Tail(s)

sanitize(name, caseStyle) ==
  LET raw == IF caseStyle = "simple" THEN SelectSeq(name, IsAlnum)
             ELSE Uncapitalize(CamelFold(name, FALSE))
  IN  IF raw # <<>> /\ IsDigit(raw[1]) THEN <<"_">> \o raw ELSE raw

(* !data.options.simpleNames ? CaseStyle.camelCase : CaseStyle.simple *)
ParamCaseStyle(options) == IF ~options.simpleNames THEN "camelCase" ELSE "simple"

sanitizeObjectKeys(obj, caseStyle) ==
  [key \in {sanitize(k2, caseStyle) : k2 \in DOMAIN obj} |->
     obj[CHOOSE k2 \in DOMAIN obj : sanitize(k2, caseStyle) = key]]

(***************************************************************************)
(* Buffer.from(text).toString('base64') for ASCII text.                    *)
(***************************************************************************)
Base64Alphabet ==
  <<"A", "B", "C", "D", "E", "F", "G", "H", "I", "J", "K", "L", "M", "N", "O", "P",
    "Q", "R", "S", "T", "U", "V", "W", "X", "Y", "Z", "a", "b", "c", "d", "e", "f",
    "g", "h", "i", "j", "k", "l", "m", "n", "o", "p", "q", "r", "s", "t", "u", "v",
    "w", "x", "y", "z", "0", "1", "2", "3", "4", "5", "6", "7", "8", "9", "+", "/">>

RECURSIVE Base64(_)
Base64(text) ==
  IF text = <<>> THEN <<>>
  ELSE LET n == Len(text)
           b1 == CharCode(text[1])
           b2 == IF n >= 2 THEN CharCode(text[2]) ELSE 0
           b3 == IF n >= 3 THEN CharCode(text[3]) ELSE 0
           v == b1 * 65536 + b2 * 256 + b3
       IN  << Base64Alphabet[(v \div 262144) + 1],
              Base64Alphabet[((v \div 4096) % 64) + 1],
              IF n >= 2 THEN Base64Alphabet[((v \div 64) % 64) + 1] ELSE "=",
              IF n >= 3 THEN Base64Alphabet[(v % 64) + 1] ELSE "=" >>
           \o Base64(SubSeq(text, 4, n))

(***************************************************************************)
(* Path identifiers.  info.path is the sequence of the keys from the query *)
(* root to the field (field names or aliases, and list indices written in  *)
(* digits); path.prev is the sequence without its last key.                *)
(***************************************************************************)
RECURSIVE DropSpaces(_)
DropSpaces(s) == IF s # <<>> /\ s[1] = " " THEN DropSpaces(Tail(s)) ELSE s

(* isNaN(parseInt(key)) *)
IsNaNParseInt(key) ==
  LET t == DropSpaces(key)
      u == IF t # <<>> /\ t[1] \in {"+", "-"} THEN Tail(t) ELSE t
  IN  u = <<>> \/ ~IsDigit(u[1])

RECURSIVE getIdentifierRecursive_KeepIndex(_)
getIdentifierRecursive_KeepIndex(path) ==
  IF Len(path) = 1 THEN path[1]
  ELSE path[Len(path)] \o <<"/">>
       \o getIdentifierRecursive_KeepIndex(SubSeq(path, 1, Len(path) - 1))

RECURSIVE getIdentifierRecursive(_)
getIdentifierRecursive(path) ==
  LET key == path[Len(path)]
      prev == SubSeq(path, 1, Len(path) - 1)
  IN  IF Len(path) = 1 THEN key
      ELSE IF IsNaNParseInt(key) THEN key \o <<"/">> \o getIdentifierRecursive(prev)
      ELSE getIdentifierRecursive(prev)

getIdentifier(info) == getIdentifierRecursive(info.path)

(* info.path.prev is undefined for a root field: reading its prev throws. *)
getParentIdentifier(info) ==
  IF Len(info.path) = 1 THEN [ok |-> FALSE, id |-> <<>>]
  ELSE [ok |-> TRUE, id |-> getIdentifierRecursive(SubSeq(info.path, 1, Len(info.path) - 1))]

(***************************************************************************)
(* Runtime expressions.                                                    *)
(***************************************************************************)
isRuntimeExpression(str) ==
  IF str = S_url \/ str = S_method \/ str = S_statusCode THEN TRUE
  ELSE IF StartsWith(str, S_requestDot)
       THEN \E i \in 1..Len(RUNTIME_REFERENCES) :
              StartsWith(str, S_requestDot \o RUNTIME_REFERENCES[i])
  ELSE IF StartsWith(str, S_responseDot)
       THEN \E i \in 1..Len(RUNTIME_REFERENCES) :
              StartsWith(str, S_responseDot \o RUNTIME_REFERENCES[i])
  ELSE FALSE

(* JSONPath({path, json}) of jsonpath-plus for a path that is one property  *)
(* name: the values it selects.  A json that is not an object (a string,    *)
(* undefined) and an undefined path select nothing.                         *)
JSONPath(path, isObject, json) ==
  IF path.ok /\ isObject /\ path.s \in DOMAIN json THEN <<json[path.s]>> ELSE <<>>

Resolved(v) == [st |-> "ok", v |-> v, warned |-> FALSE]
Thrown(kind, warned) == [st |-> kind, v |-> Undefined, warned |-> warned]

(* usedParams[sanitize(value.split(sep)[1], camelCase)]; sanitize of an     *)
(* undefined name throws a TypeError.                                       *)
UsedParamLookup(value, sep, resolveData) ==
  LET name == SplitSecond(value, sep)
  IN  IF ~name.ok THEN Thrown("TypeError", FALSE)
      ELSE Resolved(GetKey(resolveData.usedParams, sanitize(name.s, "camelCase")))

(* headers[value.split('header.')[1]]; an undefined name reads the key      *)
(* "undefined".                                                             *)
HeaderLookup(value, defined, headers) ==
  LET name == SplitSecond(value, S_headerDot)
  IN  IF ~defined THEN Thrown("TypeError", FALSE)
      ELSE Resolved(GetKey(headers, IF name.ok THEN name.s ELSE S_undefined))

(* The pointer resolves to the name it points at, not to the value there *)
BodyPointer_Name(value, isObject, json) ==
  LET tokens == JSONPath(SplitSecond(value, S_bodyHashSlash), isObject, json)
  IN  IF Len(tokens) > 0 THEN Resolved(Str(SplitSecond(value, S_bodyHashSlash).s))
      ELSE Thrown("InvalidRuntimeExpression", TRUE)

(* A body pointer: tokens[0] when the path selects something; otherwise the *)
(* warning is logged and control leaves the if-chain and reaches the throw  *)
(* that ends resolveRuntimeExpression.                                      *)
BodyPointer(value, isObject, json) ==
  LET tokens == JSONPath(SplitSecond(value, S_bodyHashSlash), isObject, json)
  IN  IF Len(tokens) > 0 THEN Resolved(tokens[1])
      ELSE Thrown("InvalidRuntimeExpression", TRUE)

resolveRuntimeExpression(paramName, value, resolveData, root, args) ==
  IF value = S_url THEN
       IF resolveData.hasOptions THEN Resolved(Str(resolveData.usedRequestOptions.url))
       ELSE Thrown("TypeError", FALSE)
  ELSE IF value = S_method THEN
       IF resolveData.hasOptions THEN Resolved(Str(resolveData.usedRequestOptions.method))
       ELSE Thrown("TypeError", FALSE)
  ELSE IF value = S_statusCode THEN Resolved(resolveData.usedStatusCode)
  ELSE IF StartsWith(value, S_requestDot) THEN
       IF value = S_requestBody THEN Resolved(resolveData.usedPayload)
       ELSE IF StartsWith(value, S_requestBodyHash) THEN
            (* usedPayload is undefined or the encoded text, never an object *)
            BodyPointer(value, FALSE, EmptyObject)
       ELSE IF StartsWith(value, S_requestQuery) THEN
            UsedParamLookup(value, S_queryDot, resolveData)
       ELSE IF StartsWith(value, S_requestPath) THEN
            UsedParamLookup(value, S_pathDot, resolveData)
       ELSE IF StartsWith(value, S_requestHeader) THEN
            HeaderLookup(value, resolveData.hasOptions, resolveData.usedRequestOptions.headers)
       ELSE Thrown("InvalidRuntimeExpression", FALSE)
  ELSE IF StartsWith(value, S_responseDot) THEN
       IF value = S_responseBody THEN
            (* JSON.parse(JSON.stringify(undefined)) throws a SyntaxError *)
            IF root.isObject THEN Resolved(ObjectValue) ELSE Thrown("SyntaxError", FALSE)
       ELSE IF StartsWith(value, S_responseBodyHash) THEN
            BodyPointer(value, root.isObject, root.fields)
       ELSE IF StartsWith(value, S_responseQuery) THEN
            UsedParamLookup(value, S_queryDot, resolveData)
       ELSE IF StartsWith(value, S_responsePath) THEN
            UsedParamLookup(value, S_pathDot, resolveData)
       ELSE IF StartsWith(value, S_responseHeader) THEN
            HeaderLookup(value, resolveData.hasResponseHeaders, resolveData.responseHeaders)
       ELSE Thrown("InvalidRuntimeExpression", FALSE)
  ELSE Thrown("InvalidRuntimeExpression", FALSE)

(***************************************************************************)
(* extractRequestDataFromArgs                                              *)
(***************************************************************************)
ExtractParam(acc, param, args, data) ==
  LET saneParamName == sanitize(param.name, ParamCaseStyle(data.options))
      text == JsToString(args[saneParamName])
      cookie == IF S_cookie \in DOMAIN acc.headers
                THEN JsToString(acc.headers[S_cookie]) ELSE <<>>
  IN  IF saneParamName # <<>> /\ saneParamName \in DOMAIN args
      THEN CASE param.in = "path" ->
                  [acc EXCEPT !.path = ReplaceFirst(@, <<"{">> \o param.name \o <<"}">>, text)]
             [] param.in = "query" ->
                  [acc EXCEPT !.qs = SetKey(@, param.name, args[saneParamName])]
             [] param.in = "header" ->
                  [acc EXCEPT !.headers = SetKey(@, param.name, args[saneParamName])]
             [] param.in = "cookie" ->
                  [acc EXCEPT !.headers =
                     SetKey(@, S_cookie, Str(cookie \o param.name \o <<"=">> \o text \o <<";", " ">>))]
             [] OTHER -> acc
      ELSE acc

RECURSIVE ExtractLoop(_, _, _, _)
ExtractLoop(parameters, acc, args, data) ==
  IF parameters = <<>> THEN acc
  ELSE ExtractLoop(Tail(parameters), ExtractParam(acc, Head(parameters), args, data), args, data)

extractRequestDataFromArgs(path, parameters, args, data) ==
  ExtractLoop(parameters, [path |-> path, qs |-> EmptyObject, headers |-> EmptyObject], args, data)

(***************************************************************************)
(* Default values of parameters (getResolver).                             *)
(***************************************************************************)
(* Oas3Tools.resolveRef(schemaOrRef.$ref, operation.oas) *)
resolveRef(ref, oas) ==
  IF ref \in DOMAIN oas.schemas THEN [defined |-> TRUE, default |-> oas.schemas[ref]]
  ELSE [defined |-> FALSE, default |-> Undefined]

(* schema && schema.default && typeof schema.default !== 'undefined' *)
SchemaHasDefault(schema) ==
  schema.defined /\ Truthy(schema.default) /\ schema.default.k # "undef"

ApplyDefault(args, param, operation, data) ==
  LET saneParamName == sanitize(param.name, ParamCaseStyle(data.options))
      schema == IF param.schema.kind = "ref" THEN resolveRef(param.schema.ref, operation.oas)
                ELSE [defined |-> TRUE, default |-> param.schema.default]
  IN  IF GetKey(args, saneParamName).k = "undef" /\ param.schema.kind # "none"
         /\ SchemaHasDefault(schema)
      THEN SetKey(args, saneParamName, schema.default)
      ELSE args

RECURSIVE ApplyDefaults(_, _, _, _)
ApplyDefaults(args, parameters, operation, data) ==
  IF parameters = <<>> THEN args
  ELSE ApplyDefaults(ApplyDefault(args, Head(parameters), operation, data),
                     Tail(parameters), operation, data)

(***************************************************************************)
(* Arguments provided by links (getResolver).  argsFromLink is the         *)
(* sequence of its (paramName, value) pairs in insertion order.  The state *)
(* of the loop is [st, args, warned]; a throw ends it.                     *)
(***************************************************************************)
RECURSIVE ReplaceLinkParams(_, _, _, _, _, _)
ReplaceLinkParams(value, linkParams, paramName, resolveData, source, args) ==
  IF linkParams = <<>> THEN [st |-> "ok", s |-> value, warned |-> FALSE]
  ELSE LET linkParam == Head(linkParams)
           r == resolveRuntimeExpression(paramName, SubSeq(linkParam, 2, Len(linkParam) - 1),
                                         resolveData, source, args)
       IN  IF r.st # "ok" THEN [st |-> r.st, s |-> value, warned |-> r.warned]
           ELSE ReplaceLinkParams(ReplaceFirst(value, linkParam, JsToString(r.v)),
                                  Tail(linkParams), paramName, resolveData, source, args)

LinkArgument(acc, link, resolveData, source, data) ==
  LET saneParamName == sanitize(link.name, ParamCaseStyle(data.options))
      value == link.value
  IN  IF HasNoBrace(value)
      THEN IF isRuntimeExpression(value)
           THEN LET r == resolveRuntimeExpression(link.name, value, resolveData, source, acc.args)
                IN  IF r.st = "ok"
                    THEN [acc EXCEPT !.args = SetKey(@, saneParamName, r.v)]
                    ELSE [acc EXCEPT !.st = r.st, !.warned = r.warned]
           ELSE [acc EXCEPT !.args = SetKey(@, saneParamName, Str(value))]
      ELSE LET linkParams == BraceMatches(value)
               r == ReplaceLinkParams(value, linkParams, link.name, resolveData, source, acc.args)
           IN  IF linkParams = <<>> THEN [acc EXCEPT !.st = "TypeError"]
               ELSE IF r.st = "ok"
                    THEN [acc EXCEPT !.args = SetKey(@, saneParamName, Str(r.s))]
                    ELSE [acc EXCEPT !.st = r.st, !.warned = r.warned]

RECURSIVE LinkArguments(_, _, _, _, _)
LinkArguments(acc, argsFromLink, resolveData, source, data) ==
  IF argsFromLink = <<>> \/ acc.st # "ok" THEN acc
  ELSE LinkArguments(LinkArgument(acc, Head(argsFromLink), resolveData, source, data),
                     Tail(argsFromLink), resolveData, source, data)

(***************************************************************************)
(* Authentication.                                                         *)
(***************************************************************************)
(* The requirement selected is the last one with credentials *)
RECURSIVE FirstSupplied_Last(_, _)
FirstSupplied_Last(securityRequirements, security) ==
  IF securityRequirements = <<>> THEN [found |-> FALSE, securityRequirement |-> <<>>]
  ELSE LET last == securityRequirements[Len(securityRequirements)]
       IN  IF sanitize(last, "camelCase") \in DOMAIN security
           THEN [found |-> TRUE, securityRequirement |-> last]
           ELSE FirstSupplied_Last(SubSeq(securityRequirements, 1, Len(securityRequirements) - 1),
                                   security)

RECURSIVE FirstSupplied(_, _)
FirstSupplied(securityRequirements, security) ==
  IF securityRequirements = <<>> THEN [found |-> FALSE, securityRequirement |-> <<>>]
  ELSE IF sanitize(Head(securityRequirements), "camelCase") \in DOMAIN security
       THEN [found |-> TRUE, securityRequirement |-> Head(securityRequirements)]
       ELSE FirstSupplied(Tail(securityRequirements), security)

(* st is "TypeError" when the hidden record has no security map to read. *)
getAuthReqAndProtcolName(operation, _openAPIToGraphQL) ==
  LET first == FirstSupplied(operation.securityRequirements, _openAPIToGraphQL.security)
  IN  IF Len(operation.securityRequirements) > 0
      THEN IF ~_openAPIToGraphQL.hasSecurity
           THEN [st |-> "TypeError", authRequired |-> TRUE, found |-> FALSE,
                 securityRequirement |-> <<>>, sanitizedSecurityRequirement |-> <<>>]
           ELSE [st |-> "ok", authRequired |-> TRUE, found |-> first.found,
                 securityRequirement |-> first.securityRequirement,
                 sanitizedSecurityRequirement |-> sanitize(first.securityRequirement, "camelCase")]
      ELSE [st |-> "ok", authRequired |-> FALSE, found |-> FALSE,
            securityRequirement |-> <<>>, sanitizedSecurityRequirement |-> <<>>]

NoAuth(st) ==
  [st |-> st, authHeaders |-> EmptyObject, authQs |-> EmptyObject,
   hasCookie |-> FALSE, authCookie |-> <<>>]

AuthOptionsFor(req, _openAPIToGraphQL, data) ==
  LET security == data.security[req.securityRequirement]
      creds == _openAPIToGraphQL.security[req.sanitizedSecurityRequirement]
      credentials == JsToString(creds.username) \o <<":">> \o JsToString(creds.password)
  IN  IF req.st # "ok" THEN NoAuth(req.st)
      ELSE IF ~req.authRequired THEN NoAuth("ok")
      ELSE IF ~req.found THEN NoAuth("MissingAuthentication")
      ELSE IF req.securityRequirement \notin DOMAIN data.security THEN NoAuth("TypeError")
      ELSE CASE security.def.type = "apiKey" ->
                  IF ~security.def.hasIn THEN NoAuth("ok")
                  ELSE IF ~security.def.hasName THEN NoAuth("CannotSendApiKey")
                  ELSE CASE security.def.in = "header" ->
                              [NoAuth("ok") EXCEPT !.authHeaders = SetKey(@, security.def.name, creds.apiKey)]
                         [] security.def.in = "query" ->
                              [NoAuth("ok") EXCEPT !.authQs = SetKey(@, security.def.name, creds.apiKey)]
                         [] security.def.in = "cookie" ->
                              [NoAuth("ok") EXCEPT !.hasCookie = TRUE,
                                 !.authCookie = security.def.name \o <<"=">> \o JsToString(creds.apiKey)]
                         [] OTHER -> NoAuth("ok")
             [] security.def.type = "http" ->
                  IF security.def.scheme = "basic"
                  THEN [NoAuth("ok") EXCEPT !.authHeaders =
                          SetKey(@, S_Authorization, Str(S_Basic \o Base64(credentials)))]
                  ELSE NoAuth("UnknownHttpScheme")
             [] security.def.type \in {"oauth2", "openIdConnect"} -> NoAuth("ok")
             [] OTHER -> NoAuth("UnknownSecurityType")

getAuthOptions(operation, _openAPIToGraphQL, data) ==
  AuthOptionsFor(getAuthReqAndProtcolName(operation, _openAPIToGraphQL), _openAPIToGraphQL, data)

(* JSONPath({path: tokenJSONpath, json: context}): the context is modelled  *)
(* by whether the path finds a token in it, and the token.                  *)
extractToken(data, context) ==
  IF context.hasToken THEN (S_accessToken :> Str(context.token)) ELSE EmptyObject

createOAuthQS(data, context) ==
  IF ~data.options.hasTokenJSONpath THEN EmptyObject ELSE extractToken(data, context)

createOAuthHeader(data, context) ==
  IF ~data.options.hasTokenJSONpath THEN EmptyObject
  ELSE IF context.hasToken
       THEN (S_Authorization :> Str(S_Bearer \o context.token))
            @@ (S_UserAgent :> Str(S_openapiToGraphql))
       ELSE EmptyObject

(***************************************************************************)
(* ResolveData and request options.                                        *)
(***************************************************************************)
NoOptions ==
  [method |-> <<>>, url |-> <<>>, headers |-> EmptyObject, qs |-> EmptyObject,
   hasBody |-> FALSE, body |-> Undefined]

(* let resolveData = {} followed by the default of usedParams *)
EmptyResolveData ==
  [usedParams |-> EmptyObject, usedPayload |-> Undefined, hasOptions |-> FALSE,
   usedRequestOptions |-> NoOptions, usedStatusCode |-> Undefined,
   hasResponseHeaders |-> FALSE, responseHeaders |-> EmptyObject]

(* JSON.parse(JSON.stringify(resolveData)) *)
JsonCopyResolveData(rd) ==
  [rd EXCEPT !.usedParams = JsonCopyObject(@),
             !.usedRequestOptions = [@ EXCEPT !.headers = JsonCopyObject(@),
                                              !.qs = JsonCopyObject(@),
                                              !.hasBody = @ /\ rd.usedRequestOptions.body.k # "undef"],
             !.responseHeaders = JsonCopyObject(@)]

(* Ancestor context recovery: the copy of data[getParentIdentifier(info)]   *)
(* of the hidden record of the source, parentData being its data map.       *)
RecoverResolveData(source, parentData, info) ==
  LET parentIdentifier == getParentIdentifier(info)
  IN  IF source.isObject /\ source.hasOatg /\ source.oatg.hasData
      THEN IF ~parentIdentifier.ok THEN [st |-> "TypeError", rd |-> EmptyResolveData]
           ELSE IF ~(Len(parentIdentifier.id) = 0) /\ parentIdentifier.id \in DOMAIN parentData
                THEN [st |-> "ok", rd |-> JsonCopyResolveData(parentData[parentIdentifier.id])]
                ELSE [st |-> "ok", rd |-> EmptyResolveData]
      ELSE [st |-> "ok", rd |-> EmptyResolveData]

(* JSON.stringify of a primitive argument (an object argument is kept as    *)
(* its tag only and is written as the empty object).                        *)
JsonStringify(v) ==
  CASE v.k = "undef" -> Undefined
    [] v.k = "str" -> Str(<<"dquote">> \o v.s \o <<"dquote">>)
    [] v.k = "obj" -> Str(<<"{", "}">>)
    [] OTHER -> Str(v.s)

(* formurlencoded of an argument that is no object: no pair, the empty text *)
FormUrlEncoded(v) == Str(<<>>)

(* Determine possible payload *)
RawPayload(field, operation, data, args) ==
  LET sanePayloadName == IF data.options.genericPayloadArgName THEN S_requestBodyArg
                         ELSE sanitize(field.payloadName, "camelCase")
      arg == GetKey(args, sanePayloadName)
  IN  IF operation.hasPayloadContentType /\ operation.payloadContentType = S_applicationJson
      THEN JsonStringify(arg)
      ELSE IF operation.hasPayloadContentType /\ operation.payloadContentType = S_formUrlencoded
      THEN FormUrlEncoded(arg)
      ELSE arg

(* The headers and the query string of options before the payload, the      *)
(* static options and the authentication are added.                         *)
MergeRequestOptions(requestOptions, headers, qs) ==
  [headers |-> IF requestOptions.defined /\ requestOptions.hasHeaders
               THEN ObjectAssign(ObjectAssign(EmptyObject, headers), requestOptions.headers)
               ELSE headers,
   qs |-> IF requestOptions.defined /\ requestOptions.hasQs
          THEN ObjectAssign(ObjectAssign(EmptyObject, qs), requestOptions.qs)
          ELSE qs]

(* The Content-Type and Accept headers of the operation *)
ContentHeaders(operation, headers) ==
  LET withContentType ==
        IF operation.method # S_get
        THEN SetKey(headers, S_contentType,
                    Str(IF operation.hasPayloadContentType THEN operation.payloadContentType
                        ELSE S_applicationJson))
        ELSE headers
  IN  SetKey(withContentType, S_accept,
             Str(IF operation.hasResponseContentType THEN operation.responseContentType
                 ELSE S_applicationJson))

(* Pass on OpenAPI-to-GraphQL options *)
StaticOptions(data, merged) ==
  [headers |-> IF data.options.hasHeaders THEN ObjectAssign(merged.headers, data.options.headers)
               ELSE merged.headers,
   qs |-> IF data.options.hasQs THEN ObjectAssign(merged.qs, data.options.qs) ELSE merged.qs]

(* ...and pass them to the options; add authentication cookie if created.   *)
(* getAuthOptions starts authCookie at null and the caller tests it against *)
(* null.                                                                    *)
AddAuth(auth, opts) ==
  LET headers == ObjectAssign(opts.headers, auth.authHeaders)
      cookie == GetKey(headers, S_cookie)
  IN  [headers |-> IF auth.hasCookie
                   THEN SetKey(headers, S_cookie,
                               Str(IF Truthy(cookie) THEN JsToString(cookie) \o auth.authCookie
                                   ELSE auth.authCookie))
                   ELSE headers,
       qs |-> ObjectAssign(opts.qs, auth.authQs)]

(* Extract OAuth token from context (if available) *)
AddOAuth(data, context, opts) ==
  IF data.options.sendOAuthTokenInQuery
  THEN [opts EXCEPT !.qs = ObjectAssign(@, createOAuthQS(data, context))]
  ELSE [opts EXCEPT !.headers = ObjectAssign(@, createOAuthHeader(data, context))]

(***************************************************************************)
(* The synthesized resolver up to the call of httpRequest, in the order of *)
(* the source; each stage hands what it computed to the next.  st is "ok"  *)
(* when the request is dispatched and the kind of the error thrown         *)
(* otherwise.                                                              *)
(***************************************************************************)
(* resolveData.usedRequestOptions = options and the outcome *)
SyncFinish(field, callerArgs, recovered, linked, rawPayload, auth, final, url) ==
  LET operation == field.operation
      options == [method |-> operation.method, url |-> url, headers |-> final.headers,
                  qs |-> final.qs, hasBody |-> field.hasPayloadName,
                  body |-> IF field.hasPayloadName THEN rawPayload ELSE Undefined]
      st == IF recovered.st # "ok" THEN recovered.st
            ELSE IF linked.st # "ok" THEN linked.st
            ELSE auth.st
  IN  [st |-> st,
       warned |-> recovered.st = "ok" /\ linked.warned,
       args |-> IF recovered.st # "ok" THEN callerArgs ELSE linked.args,
       recovered |-> recovered.rd,
       options |-> IF st = "ok" THEN options ELSE NoOptions,
       resolveData |->
         IF st = "ok"
         THEN [recovered.rd EXCEPT
                 !.usedParams = ObjectAssign(recovered.rd.usedParams, linked.args),
                 !.usedPayload = IF field.hasPayloadName THEN rawPayload ELSE Undefined,
                 !.hasOptions = TRUE,
                 !.usedRequestOptions = options,
                 !.usedStatusCode = operation.statusCode]
         ELSE EmptyResolveData]

(* Static options, authentication and the OAuth token *)
SyncAuth(field, data, source, callerArgs, context, recovered, linked, rawPayload, merged, url, auth) ==
  SyncFinish(field, callerArgs, recovered, linked, rawPayload, auth,
             AddOAuth(data, context, AddAuth(auth, StaticOptions(data, merged))), url)

(* Build URL, the Content-Type and Accept headers, the request options and  *)
(* the payload                                                              *)
SyncRequest(field, data, source, callerArgs, context, recovered, linked, extracted) ==
  SyncAuth(field, data, source, callerArgs, context, recovered, linked,
           RawPayload(field, field.operation, data, linked.args),
           MergeRequestOptions(field.requestOptions,
                               ContentHeaders(field.operation, extracted.headers), extracted.qs),
           field.baseUrl \o extracted.path,
           IF source.isObject /\ source.hasOatg
           THEN getAuthOptions(field.operation, source.oatg, data) ELSE NoAuth("ok"))

(* Arguments provided by links, then the request data *)
SyncLinked(field, data, source, callerArgs, context, recovered, linked) ==
  SyncRequest(field, data, source, callerArgs, context, recovered, linked,
              extractRequestDataFromArgs(field.operation.path, field.operation.parameters,
                                         linked.args, data))

(* Default values of parameters, then the arguments provided by links *)
SyncRecovered(field, data, source, callerArgs, context, recovered) ==
  SyncLinked(field, data, source, callerArgs, context, recovered,
             LinkArguments([st |-> "ok", warned |-> FALSE,
                            args |-> ApplyDefaults(callerArgs, field.operation.parameters,
                                                   field.operation, data)],
                           field.argsFromLink, recovered.rd, source, data))

ResolveSync(field, data, source, parentData, callerArgs, context, info) ==
  SyncRecovered(field, data, source, callerArgs, context,
                RecoverResolveData(source, parentData, info))

(***************************************************************************)
(* The response callback of the synthesized resolver.                      *)
(***************************************************************************)
S_id == <<"i", "d">>
S_userId == <<"u", "s", "e", "r", "-", "i", "d">>
S_html == <<"<", "h", "t", "m", "l", ">">>

S_dollarAmp == <<"a", "$", "&", "b">>
S_dollars == <<"$", "$">>

JsonObject(fields) == [kind |-> "object", elems |-> <<fields>>, prim |-> Undefined]
JsonArray(elems) == [kind |-> "array", elems |-> elems, prim |-> Undefined]
JsonPrim(v) == [kind |-> "prim", elems |-> <<>>, prim |-> v]

(* The text of a JSON string and of an object of one or two string members *)
QuotedText(s) == <<"dquote">> \o s \o <<"dquote">>
MemberText(key, s) == QuotedText(key) \o <<":">> \o QuotedText(s)
ObjectText1(key, s) == <<"{">> \o MemberText(key, s) \o <<"}">>
ObjectText2(k1, s1, k2, s2) ==
  <<"{">> \o MemberText(k1, s1) \o <<",">> \o MemberText(k2, s2) \o <<"}">>

(* The largest number of elements of a list result *)
MaxListLen == 2

(* The digit of a number below ten, as text *)
DigitText(n) == <<CharOf(CharCode("0") + n)>>

(* The array of the objects with id 1 .. n, and its text *)
UsersArray(n) == [i \in 1..n |-> (S_id :> Str(DigitText(i)))]

RECURSIVE UsersText(_)
UsersText(n) ==
  IF n = 0 THEN <<>>
  ELSE UsersText(n - 1) \o (IF n > 1 THEN <<",">> ELSE <<>>) \o ObjectText1(S_id, DigitText(n))

ArrayText(n) == <<"[">> \o UsersText(n) \o <<"]">>

(* The JSON documents of the model, each with the value JSON.parse gives *)
JsonDocuments ==
  << [text |-> ObjectText1(S_id, <<"1">>), value |-> JsonObject(S_id :> Str(<<"1">>))],
     [text |-> ObjectText1(S_id, <<"2">>), value |-> JsonObject(S_id :> Str(<<"2">>))],
     [text |-> ObjectText1(S_id, <<"4", "2">>), value |-> JsonObject(S_id :> Str(<<"4", "2">>))],
     [text |-> ObjectText2(S_id, <<"4", "2">>, S_userId, <<"7">>),
      value |-> JsonObject((S_id :> Str(<<"4", "2">>)) @@ (S_userId :> Str(<<"7">>)))],
     [text |-> ObjectText1(S_id, S_dollarAmp), value |-> JsonObject(S_id :> Str(S_dollarAmp))],
     [text |-> ObjectText1(S_id, S_dollars), value |-> JsonObject(S_id :> Str(S_dollars))],
     [text |-> <<"4", "2">>, value |-> JsonPrim(Num(<<"4", "2">>))],
     [text |-> S_null, value |-> JsonPrim(Null)] >>
  \o [n \in 1..(MaxListLen + 1) |-> [text |-> ArrayText(n - 1), value |-> JsonArray(UsersArray(n - 1))]]

(* JSON.parse(body): ok is FALSE when it throws *)
JsonParse(body) ==
  IF \E i \in 1..Len(JsonDocuments) : JsonDocuments[i].text = body
  THEN [ok |-> TRUE,
        value |-> JsonDocuments[CHOOSE i \in 1..Len(JsonDocuments) : JsonDocuments[i].text = body].value]
  ELSE [ok |-> FALSE, value |-> JsonPrim(Undefined)]

(* Oas3Tools.sanitizeObjectKeys over a parsed body *)
SanitizeBody(value, caseStyle) ==
  [value EXCEPT !.elems = [i \in 1..Len(value.elems) |-> sanitizeObjectKeys(value.elems[i], caseStyle)]]

NoExtensions ==
  [method |-> <<>>, path |-> <<>>, statusCode |-> 0, responseHeaders |-> EmptyObject,
   parsed |-> FALSE, responseBody |-> JsonPrim(Undefined), rawBody |-> <<>>]

Failure(kind) ==
  [st |-> kind, hasExtensions |-> FALSE, extensions |-> NoExtensions, attach |-> FALSE,
   saneData |-> JsonPrim(Undefined), kind |-> "none", elems |-> <<>>, raw |-> <<>>]

(* The extensions carry the body as received, never parsed *)
RequestFailure_Raw(operation, data, response) ==
  IF data.options.provideErrorExtensions
  THEN [Failure("RequestFailed") EXCEPT
          !.hasExtensions = TRUE,
          !.extensions = [method |-> operation.method, path |-> operation.path,
                          statusCode |-> response.statusCode,
                          responseHeaders |-> response.headers,
                          parsed |-> FALSE, responseBody |-> JsonPrim(Undefined),
                          rawBody |-> response.body]]
  ELSE Failure("RequestFailed")

(* graphQLErrorWithExtensions(errorString, extensions) for a status outside *)
(* 200..299, or new Error(errorString)                                      *)
RequestFailure(operation, data, response) ==
  LET parsed == JsonParse(response.body)
  IN  IF data.options.provideErrorExtensions
      THEN [Failure("RequestFailed") EXCEPT
              !.hasExtensions = TRUE,
              !.extensions = [method |-> operation.method, path |-> operation.path,
                              statusCode |-> response.statusCode,
                              responseHeaders |-> response.headers,
                              parsed |-> parsed.ok, responseBody |-> parsed.value,
                              rawBody |-> IF parsed.ok THEN <<>> ELSE response.body]]
      ELSE Failure("RequestFailed")

(* ToNumber of the limit argument, for limit >= 0 and slice(0, limit);      *)
(* isNumber is FALSE for NaN                                                *)
RECURSIVE DigitsValue(_, _)
DigitsValue(s, acc) ==
  IF s = <<>> THEN acc
  ELSE DigitsValue(Tail(s), acc * 10 + (CharCode(s[1]) - CharCode("0")))

ToNumber(v) ==
  LET negative == v.s # <<>> /\ v.s[1] = "-"
      digits == IF negative THEN Tail(v.s) ELSE v.s
      numeric == digits # <<>> /\ \A i \in 1..Len(digits) : IsDigit(digits[i])
  IN  CASE v.k \in {"num", "str"} /\ numeric ->
             [isNumber |-> TRUE, n |-> IF negative THEN 0 - DigitsValue(digits, 0)
                                       ELSE DigitsValue(digits, 0)]
        [] v.k = "null" \/ (v.k = "str" /\ v.s = <<>>) -> [isNumber |-> TRUE, n |-> 0]
        [] v.k = "bool" -> [isNumber |-> TRUE, n |-> IF Truthy(v) THEN 1 ELSE 0]
        [] OTHER -> [isNumber |-> FALSE, n |-> 0]

(* Apply limit argument: the option, no declared limit parameter, array    *)
(* data, and some element an object (the elements of the arrays of the      *)
(* model are objects)                                                       *)
LimitApplies(operation, data, saneData) ==
  /\ data.options.addLimitArgument
  /\ ~ \E i \in 1..Len(operation.parameters) : operation.parameters[i].name = S_limit
  /\ saneData.kind = "array"
  /\ Len(saneData.elems) > 0

Success(saneData, elems) ==
  [Failure("ok") EXCEPT !.attach = saneData.kind \in {"object", "array"},
                        !.saneData = saneData, !.kind = saneData.kind, !.elems = elems]

JsonSuccess(operation, data, args, saneData) ==
  IF LimitApplies(operation, data, saneData)
  THEN IF S_limit \in DOMAIN args
       THEN LET limit == ToNumber(args[S_limit])
            IN  IF limit.isNumber /\ limit.n >= 0
                THEN Success(saneData,
                             SubSeq(saneData.elems, 1,
                                    IF limit.n < Len(saneData.elems) THEN limit.n
                                    ELSE Len(saneData.elems)))
                ELSE [Success(saneData, <<>>) EXCEPT !.st = "LimitNegative"]
       ELSE [Success(saneData, <<>>) EXCEPT !.st = "LimitMissing"]
  ELSE Success(saneData, saneData.elems)

(* Every received content type is taken to match *)
ContentTypeMismatch_Never(operation, contentType) == FALSE

(* The non-application/json content does not match the OAS: an inclusion    *)
(* test either way, in case of charset                                      *)
ContentTypeMismatch(operation, contentType) ==
  ~(Includes(contentType, operation.responseContentType)
    \/ Includes(operation.responseContentType, contentType))

(* A response without content-type is null whatever is declared *)
NoContentType_Null(operation) == [Failure("ok") EXCEPT !.kind = "null"]

(* There is no content-type: null when there is not supposed to be a        *)
(* response body, an error otherwise                                        *)
NoContentType(operation) ==
  IF ~operation.hasResponseContentType
  THEN [Failure("ok") EXCEPT !.kind = "null"]
  ELSE Failure("NoContentType")

(* The callback of httpRequest(options, context).then: st is "ok" when the  *)
(* resolver returns; attach tells whether the hidden record was written on  *)
(* the elements of saneData before the outcome was decided.                 *)
HandleResponse(operation, data, args, response) ==
  LET contentType == JsToString(response.headers[S_contentType])
      parsed == JsonParse(response.body)
  IN  IF response.statusCode < 200 \/ response.statusCode > 299
      THEN RequestFailure(operation, data, response)
      ELSE IF S_contentType \in DOMAIN response.headers
                /\ Truthy(response.headers[S_contentType])
      THEN IF ~operation.hasResponseContentType /\ ~Includes(contentType, S_undefined)
           THEN (* includes(undefined) looks for the text undefined; the second    *)
                (* test calls includes of undefined and throws                     *)
                Failure("TypeError")
           ELSE IF operation.hasResponseContentType /\ ContentTypeMismatch(operation, contentType)
           THEN Failure("ContentTypeMismatch")
           ELSE IF Includes(contentType, S_applicationJson)
           THEN IF ~parsed.ok THEN Failure("CannotParseJson")
                ELSE JsonSuccess(operation, data, args,
                                 SanitizeBody(parsed.value, ParamCaseStyle(data.options)))
           ELSE [Failure("ok") EXCEPT !.kind = "raw", !.raw = response.body]
      ELSE NoContentType(operation)

(***************************************************************************)
(* The state.                                                              *)
(*   cfg       what getResolver closes over and what the query engine      *)
(*             passes: per field the operation, its link arguments and     *)
(*             request options; data (options and security schemes); the   *)
(*             root value and the context of the query; the calls of the   *)
(*             query tree (each the path of a field) with their arguments  *)
(*             and the responses the server may give.  Never changes.      *)
(*   calls     per call: where the resolver invocation stands, the request *)
(*             it dispatched, its ResolveData, and its outcome.            *)
(*   dataMaps  the heap of the data maps of the hidden records: a hidden   *)
(*             record names its map by its index, so that two records      *)
(*             holding the same map object are seen to share it.           *)
(***************************************************************************)
(* cfg, calls and dataMaps are the state of the resolvers of one query;     *)
(* input and output are the argument and the result of one call of a       *)
(* function of the library that is applied on its own.                     *)
VARIABLES cfg, calls, dataMaps, input, output

vars == <<cfg, calls, dataMaps, input, output>>

NoHidden == [hasData |-> FALSE, data |-> 0, hasSecurity |-> FALSE, security |-> EmptyObject]
UndefinedSource == [isObject |-> FALSE, fields |-> EmptyObject, hasOatg |-> FALSE, oatg |-> NoHidden]

NoResult == [kind |-> "none", elems |-> <<>>, raw |-> <<>>, prim |-> Undefined]

(* What httpRequest resolved with, once it has *)
NoResponse == [statusCode |-> 0, headers |-> EmptyObject, body |-> <<>>]

IdleCall ==
  [status |-> "idle", error |-> "none", warned |-> FALSE, sent |-> 0, args |-> EmptyObject,
   options |-> NoOptions, recovered |-> EmptyResolveData,
   resolveData |-> EmptyResolveData, result |-> NoResult,
   hasExtensions |-> FALSE, extensions |-> NoExtensions, recordAtReturn |-> <<>>,
   responded |-> FALSE, response |-> NoResponse]

LastKey(path) == path[Len(path)]
Prev(path) == SubSeq(path, 1, Len(path) - 1)
IsIndexKey(key) == ~IsNaNParseInt(key)

(* The call whose result holds the source of call c, and the element of it *)
ParentCall(c) == IF IsIndexKey(LastKey(Prev(c))) THEN Prev(Prev(c)) ELSE Prev(c)
ParentElement(c) ==
  IF IsIndexKey(LastKey(Prev(c))) THEN DigitsValue(LastKey(Prev(c)), 0) + 1 ELSE 1

(* The engine resolves the fields of a value once the parent resolver has   *)
(* returned it: a root field at once, a field of an object or of a list     *)
(* element when that object or element is in the parent result.             *)
SourceReady(c) ==
  IF Len(c) = 1 THEN TRUE
  ELSE /\ ParentCall(c) \in cfg.calls
       /\ calls[ParentCall(c)].status = "returned"
       /\ calls[ParentCall(c)].result.kind =
            (IF IsIndexKey(LastKey(Prev(c))) THEN "array" ELSE "object")
       /\ ParentElement(c) <= Len(calls[ParentCall(c)].result.elems)

SourceOf(c) ==
  IF Len(c) = 1 THEN cfg.rootValue
  ELSE calls[ParentCall(c)].result.elems[ParentElement(c)]

FieldOf(c) == cfg.fields[LastKey(c)]

(* The data map of the hidden record of a source *)
DataOf(source) ==
  IF source.isObject /\ source.hasOatg /\ source.oatg.hasData
  THEN dataMaps[source.oatg.data] ELSE EmptyObject

(***************************************************************************)
(* The engine invokes the resolver of call c: the resolver runs up to      *)
(* httpRequest, or throws.                                                 *)
(***************************************************************************)
Invoked(call, r) ==
  [call EXCEPT !.status = IF r.st = "ok" THEN "pending" ELSE "failed",
               !.error = IF r.st = "ok" THEN "none" ELSE r.st,
               !.warned = r.warned,
               !.sent = IF r.st = "ok" THEN @ + 1 ELSE @,
               !.args = r.args,
               !.recovered = r.recovered,
               !.options = r.options,
               !.resolveData = r.resolveData]

Invoke(c) ==
  /\ calls[c].status = "idle"
  /\ SourceReady(c)
  /\ calls' = [calls EXCEPT ![c] =
                 Invoked(@, ResolveSync(FieldOf(c), cfg.data, SourceOf(c), DataOf(SourceOf(c)),
                                        cfg.args[c], cfg.context, [path |-> c]))]
  /\ UNCHANGED <<cfg, dataMaps, input, output>>

(***************************************************************************)
(* Pass on _openAPIToGraphQL to subsequent resolvers: every element of     *)
(* saneData gets a hidden record {data: {}} of its own, Object.assign      *)
(* copies the properties of the hidden record of the source onto it (the   *)
(* data map and the security map themselves, not copies of them), and      *)
(* resolveData is stored in its data map under getIdentifier(info).        *)
(***************************************************************************)
AttachedElements(source, elems, firstNew) ==
  [i \in 1..Len(elems) |->
     [isObject |-> TRUE, fields |-> elems[i], hasOatg |-> TRUE,
      oatg |-> [hasData |-> TRUE,
                data |-> IF source.isObject /\ source.hasOatg /\ source.oatg.hasData
                         THEN source.oatg.data ELSE firstNew + i - 1,
                hasSecurity |-> source.isObject /\ source.hasOatg /\ source.oatg.hasSecurity,
                security |-> IF source.isObject /\ source.hasOatg /\ source.oatg.hasSecurity
                             THEN source.oatg.security ELSE EmptyObject]]]

AttachedMaps(source, count, identifier, resolveData) ==
  IF source.isObject /\ source.hasOatg /\ source.oatg.hasData
  THEN [dataMaps EXCEPT ![source.oatg.data] = SetKey(@, identifier, resolveData)]
  ELSE dataMaps \o [i \in 1..count |-> (identifier :> resolveData)]

(***************************************************************************)
(* The transport answers the request of call c with a response and the     *)
(* callback of the resolver runs.                                          *)
(***************************************************************************)
Responded(call, response, h, resolveData, returned, maps) ==
  [call EXCEPT !.status = IF h.st = "ok" THEN "returned" ELSE "failed",
               !.error = IF h.st = "ok" THEN "none" ELSE h.st,
               !.responded = TRUE,
               !.response = response,
               !.resolveData = IF h.attach THEN resolveData ELSE @,
               !.hasExtensions = h.hasExtensions,
               !.extensions = h.extensions,
               !.result = IF h.st = "ok"
                          THEN [kind |-> h.kind, elems |-> returned, raw |-> h.raw,
                                prim |-> h.saneData.prim]
                          ELSE NoResult,
               !.recordAtReturn = IF h.st = "ok"
                                  THEN [i \in 1..Len(returned) |-> maps[returned[i].oatg.data]]
                                  ELSE <<>>]

RespondWith(c, response, source, h, resolveData) ==
  LET maps == IF h.attach
              THEN AttachedMaps(source, Len(h.saneData.elems), getIdentifier([path |-> c]),
                                resolveData)
              ELSE dataMaps
      returned == IF h.attach
                  THEN SubSeq(AttachedElements(source, h.saneData.elems, Len(dataMaps) + 1),
                              1, Len(h.elems))
                  ELSE <<>>
  IN  /\ dataMaps' = maps
      /\ calls' = [calls EXCEPT ![c] = Responded(@, response, h, resolveData, returned, maps)]

Respond(c) ==
  /\ calls[c].status = "pending"
  /\ \E response \in cfg.responses[c] :
       RespondWith(c, response, SourceOf(c),
                   HandleResponse(FieldOf(c).operation, cfg.data, calls[c].args, response),
                   [calls[c].resolveData EXCEPT
                      !.hasResponseHeaders = TRUE, !.responseHeaders = response.headers])
  /\ UNCHANGED <<cfg, input, output>>

(***************************************************************************)
(* httpRequest rejects (network error, timeout): its catch rethrows the    *)
(* error and the promise the resolver returned rejects with it.            *)
(***************************************************************************)
Rejected_Retry(call) ==
  [call EXCEPT !.status = "failed", !.error = "TransportError", !.sent = @ + 1]

Rejected(call) == [call EXCEPT !.status = "failed", !.error = "TransportError"]

TransportFail(c) ==
  /\ calls[c].status = "pending"
  /\ calls' = [calls EXCEPT ![c] = Rejected(@)]
  /\ UNCHANGED <<cfg, dataMaps, input, output>>

Next ==
  \/ \E c \in cfg.calls : Invoke(c)
  \/ \E c \in cfg.calls : Respond(c)
  \/ \E c \in cfg.calls : TransportFail(c)

(***************************************************************************)
(* Configurations.                                                         *)
(***************************************************************************)
NoSchema == [kind |-> "none", ref |-> <<>>, default |-> Undefined]
Param(name, in) == [name |-> name, in |-> in, schema |-> NoSchema]

NoRequestOptions ==
  [defined |-> FALSE, hasHeaders |-> FALSE, headers |-> EmptyObject,
   hasQs |-> FALSE, qs |-> EmptyObject]

GetOperation(path, parameters) ==
  [method |-> S_get, path |-> path, parameters |-> parameters,
   hasPayloadContentType |-> FALSE, payloadContentType |-> <<>>,
   hasResponseContentType |-> TRUE, responseContentType |-> S_applicationJson,
   securityRequirements |-> <<>>, statusCode |-> Str(<<"2", "0", "0">>),
   oas |-> [schemas |-> EmptyObject]]

S_baseUrl == <<"h", "t", "t", "p", ":", "/", "/", "a", "p", "i">>

Field(operation, argsFromLink) ==
  [operation |-> operation, argsFromLink |-> argsFromLink,
   hasPayloadName |-> FALSE, payloadName |-> <<>>,
   baseUrl |-> S_baseUrl, requestOptions |-> NoRequestOptions]

Link(name, value) == [name |-> name, value |-> value]

DefaultOptions ==
  [simpleNames |-> FALSE, hasHeaders |-> FALSE, headers |-> EmptyObject,
   hasQs |-> FALSE, qs |-> EmptyObject, provideErrorExtensions |-> FALSE,
   addLimitArgument |-> FALSE, sendOAuthTokenInQuery |-> FALSE,
   hasTokenJSONpath |-> FALSE, genericPayloadArgName |-> FALSE]

NoContext == [hasToken |-> FALSE, token |-> <<>>]

JsonHeaders == (S_contentType :> Str(S_applicationJson))

Response(statusCode, headers, body) ==
  [statusCode |-> statusCode, headers |-> headers, body |-> body]

OkJson(body) == Response(200, JsonHeaders, body)
NotFound == Response(404, JsonHeaders, ObjectText1(S_id, <<"1">>))

(***************************************************************************)
(* The query tree                                                          *)
(*   user { friends { best { car } } }                                     *)
(* user returns an object, friends a list of MaxListLen objects, best and  *)
(* car an object.  friends and best take the id of their parent result by  *)
(* a link, car takes the id its parent request was made with.              *)
(***************************************************************************)
K_user == <<"u", "s", "e", "r">>
K_friends == <<"f", "r", "i", "e", "n", "d", "s">>
K_best == <<"b", "e", "s", "t">>
K_car == <<"c", "a", "r">>

TreeFields ==
  (K_user :> Field(GetOperation(<<"/", "u", "s", "e", "r">>, <<>>), <<>>))
  @@ (K_friends :> Field(GetOperation(<<"/", "u", "s", "e", "r", "s", "/", "{", "i", "d", "}", "/", "f", "r", "i", "e", "n", "d", "s">>, <<Param(S_id, "path")>>),
                         <<Link(S_id, S_responseBodyHash \o <<"/", "i", "d">>)>>))
  @@ (K_best :> Field(GetOperation(<<"/", "u", "s", "e", "r", "s", "/", "{", "i", "d", "}", "/", "b", "e", "s", "t">>, <<Param(S_id, "path")>>),
                      <<Link(S_id, S_responseBodyHash \o <<"/", "i", "d">>)>>))
  @@ (K_car :> Field(GetOperation(<<"/", "c", "a", "r", "s", "/", "{", "i", "d", "}">>, <<Param(S_id, "path")>>),
                     <<Link(S_id, S_requestPath \o <<".", "i", "d">>)>>))

BestCall(i) == <<K_user, K_friends, DigitText(i - 1), K_best>>
CarCall(i) == BestCall(i) \o <<K_car>>

TreeCalls ==
  {<<K_user>>, <<K_user, K_friends>>}
  \cup {BestCall(i) : i \in 1..MaxListLen} \cup {CarCall(i) : i \in 1..MaxListLen}

TreeResponses(c) ==
  CASE LastKey(c) = K_user -> {OkJson(ObjectText1(S_id, <<"4", "2">>))}
    [] LastKey(c) = K_friends -> {OkJson(ArrayText(MaxListLen))}
    [] LastKey(c) = K_best -> {OkJson(ObjectText1(S_id, <<"4", "2">>)), NotFound}
    [] OTHER -> {OkJson(ObjectText1(S_id, <<"1">>))}

TreeConfig ==
  [fields |-> TreeFields,
   data |-> [options |-> DefaultOptions, security |-> EmptyObject],
   rootValue |-> UndefinedSource,
   context |-> NoContext,
   calls |-> TreeCalls,
   args |-> [c \in TreeCalls |-> EmptyObject],
   responses |-> [c \in TreeCalls |-> TreeResponses(c)]]

NoInput == [kind |-> "none"]
NoOutput == [done |-> FALSE]

Init ==
  /\ cfg = TreeConfig
  /\ calls = [c \in cfg.calls |-> IdleCall]
  /\ dataMaps = <<>>
  /\ input = NoInput
  /\ output = NoOutput

Spec == Init /\ [][Next]_vars

(***************************************************************************)
(* The single operation                                                    *)
(*   item          at the query root, its source the root value            *)
(*   user { item } under the result of user                                *)
(* with the operation of item, its links, the options, the security        *)
(* schemes, the credentials of the root value, the caller's arguments and  *)
(* the responses drawn from the families below.                            *)
(***************************************************************************)
K_item == <<"i", "t", "e", "m">>
S_keyA == <<"k", "e", "y", "-", "a">>
S_basicB == <<"b", "a", "s", "i", "c", "-", "b">>
S_cookieC == <<"c", "o", "o", "k", "i", "e", "-", "c">>
S_queryD == <<"q", "u", "e", "r", "y", "-", "d">>
S_acceptKey == <<"a", "c", "c", "e", "p", "t", "-", "k", "e", "y">>

ApiKeyScheme(in, name) ==
  [def |-> [type |-> "apiKey", hasIn |-> TRUE, in |-> in, hasName |-> TRUE, name |-> name,
            scheme |-> ""]]
BasicScheme ==
  [def |-> [type |-> "http", hasIn |-> FALSE, in |-> "", hasName |-> FALSE, name |-> <<>>,
            scheme |-> "basic"]]

(* data.security: the security schemes of the document *)
SecuritySchemes ==
  (S_keyA :> ApiKeyScheme("header", <<"X", "-", "K", "e", "y">>))
  @@ (S_basicB :> BasicScheme)
  @@ (S_cookieC :> ApiKeyScheme("cookie", <<"s", "i", "d">>))
  @@ (S_queryD :> ApiKeyScheme("query", <<"a", "p", "i", "_", "k", "e", "y">>))
  @@ (S_acceptKey :> ApiKeyScheme("header", S_accept))

(* The credentials the caller can supply for a scheme (the arguments of its *)
(* viewer), keyed in the security map by the sanitized scheme name          *)
Credentials(scheme) ==
  IF scheme = S_basicB
  THEN [apiKey |-> Undefined, username |-> Str(<<"u", "s", "r">>), password |-> Str(<<"p", "w">>)]
  ELSE [apiKey |-> Str(<<"k", "-">> \o scheme), username |-> Undefined, password |-> Undefined]

SecurityMap(schemes) ==
  [name \in {sanitize(x, "camelCase") : x \in schemes} |->
     Credentials(CHOOSE x \in schemes : sanitize(x, "camelCase") = name)]

(* What a viewer resolver returns: a hidden record with a security map and  *)
(* no data map                                                              *)
ViewerSource(schemes) ==
  [isObject |-> TRUE, fields |-> EmptyObject, hasOatg |-> TRUE,
   oatg |-> [hasData |-> FALSE, data |-> 0, hasSecurity |-> TRUE,
             security |-> SecurityMap(schemes)]]

UserDocument == ObjectText2(S_id, <<"4", "2">>, S_userId, <<"7">>)

ItemParameters == <<Param(S_id, "path"), Param(S_userId, "query")>>
ItemOperation == GetOperation(<<"/", "i", "t", "e", "m", "s", "/", "{", "i", "d", "}">>, ItemParameters)
ItemField == Field(ItemOperation, <<>>)
ItemArgs == (S_id :> Str(<<"5">>))

CallCalls == {<<K_user>>, <<K_item>>, <<K_user, K_item>>}

CallConfig(itemField, options, rootValue, context, itemArgs, itemResponses) ==
  [fields |-> (K_user :> Field(GetOperation(<<"/", "u", "s", "e", "r">>, <<>>), <<>>)) @@ (K_item :> itemField),
   data |-> [options |-> options, security |-> SecuritySchemes],
   rootValue |-> rootValue,
   context |-> context,
   calls |-> CallCalls,
   args |-> [c \in CallCalls |-> IF LastKey(c) = K_item THEN itemArgs ELSE EmptyObject],
   responses |-> [c \in CallCalls |->
                    IF LastKey(c) = K_item THEN itemResponses ELSE {OkJson(UserDocument)}]]

ItemOk == {OkJson(ObjectText1(S_id, <<"1">>))}

(* Headers: the method, the declared content types, and one source of a     *)
(* header named accept and one named content-type: the per-call request     *)
(* options, the static options, a header parameter, an API key scheme.      *)
TextHeaders == (S_accept :> Str(S_textPlain)) @@ (S_contentType :> Str(S_textPlain))
OtherHeaders == (<<"x", "-", "t", "r", "a", "c", "e">> :> Str(<<"1">>))

HeaderSources == {"none", "requestOptions", "requestOptionsOther", "static", "parameter", "apiKey"}

HeaderConfig(method, declared, src, token) ==
  CallConfig(
    [ItemField EXCEPT
       !.operation = [@ EXCEPT
          !.method = method,
          !.hasPayloadContentType = declared, !.payloadContentType = IF declared THEN S_formUrlencoded ELSE <<>>,
          !.hasResponseContentType = declared, !.responseContentType = IF declared THEN S_textPlain ELSE <<>>,
          !.parameters = IF src = "parameter"
                         THEN @ \o <<Param(S_accept, "header"), Param(S_contentType, "header")>>
                         ELSE @,
          !.securityRequirements = IF src = "apiKey" THEN <<S_acceptKey>> ELSE <<>>],
       !.requestOptions =
          CASE src = "requestOptions" -> [@ EXCEPT !.defined = TRUE, !.hasHeaders = TRUE, !.headers = TextHeaders]
            [] src = "requestOptionsOther" -> [@ EXCEPT !.defined = TRUE, !.hasHeaders = TRUE, !.headers = OtherHeaders]
            [] OTHER -> @],
    [DefaultOptions EXCEPT !.hasHeaders = (src = "static"), !.headers = IF src = "static" THEN TextHeaders ELSE @,
                           !.hasTokenJSONpath = token],
    IF src = "apiKey" THEN ViewerSource({S_acceptKey}) ELSE UndefinedSource,
    [hasToken |-> token, token |-> IF token THEN <<"t", "o", "k">> ELSE <<>>],
    IF src = "parameter"
    THEN ItemArgs @@ (S_accept :> Str(S_textPlain)) @@ (sanitize(S_contentType, "camelCase") :> Str(S_textPlain))
    ELSE ItemArgs,
    {Response(200, (S_contentType :> Str(S_textPlain)), S_html)})

HeaderConfigs ==
  {HeaderConfig(method, declared, src, token) :
     method \in {S_get, S_post}, declared \in BOOLEAN, src \in HeaderSources, token \in BOOLEAN}

(* Authentication: the security requirements of the operation, in order,   *)
(* and the root value: nothing, or what a viewer returns for the schemes    *)
(* the caller supplied credentials for.                                     *)
MaxRequirements == 2
MaxCredentials == 2

AuthSchemes == {S_keyA, S_basicB, S_cookieC, S_queryD}

RECURSIVE Requirements(_)
Requirements(n) ==
  IF n = 0 THEN {<<>>}
  ELSE Requirements(n - 1)
       \cup {Append(reqs, x) : reqs \in {r \in Requirements(n - 1) : Len(r) = n - 1},
                               x \in AuthSchemes}

DistinctRequirements ==
  {reqs \in Requirements(MaxRequirements) :
     \A i, j \in 1..Len(reqs) : reqs[i] = reqs[j] => i = j}

AuthConfig(reqs, rootValue) ==
  CallConfig([ItemField EXCEPT !.operation.securityRequirements = reqs],
             DefaultOptions, rootValue, NoContext, ItemArgs, ItemOk)

AuthConfigs ==
  {AuthConfig(reqs, rootValue) :
     reqs \in DistinctRequirements,
     rootValue \in {UndefinedSource}
                   \cup {ViewerSource(schemes) :
                           schemes \in {s \in SUBSET AuthSchemes : Cardinality(s) <= MaxCredentials}}}

(* Links: one link parameter for the path parameter id, and whether the     *)
(* caller passes id as well.                                                *)
LinkValues ==
  { S_responseBodyHash \o <<"/", "i", "d">>, S_responseBodyHash \o <<"/", "u", "s", "e", "r", "I", "d">>,
    S_responseBodyHash \o <<"/", "u", "s", "e", "r", "-", "i", "d">>, S_responseBodyHash \o <<"/", "n", "o", "n", "e">>,
    S_requestBodyHash \o <<"/", "i", "d">>, S_responseBody, S_requestBody,
    <<"$", "r", "e", "q", "u", "e", "s", "t", ".", "f", "o", "o">>, <<"$", "r", "e", "s", "p", "o", "n", "s", "e", ".", "f", "o", "o">>, <<"$", "r", "e", "q", "u", "e", "s", "t", ".">>, <<"$", "r", "e", "q", "u", "e", "s", "t", ".", "c", "o", "o", "k", "i", "e", ".", "s", "i", "d">>,
    <<"{", "$", "r", "e", "q", "u", "e", "s", "t", ".", "f", "o", "o", "}">>, <<"{", "$", "r", "e", "s", "p", "o", "n", "s", "e", ".", "f", "o", "o", ".", "b", "a", "r", "}">>, <<"a", "_", "{", "$", "r", "e", "q", "u", "e", "s", "t", ".", "f", "o", "o", "}">>,
    <<"{", "$", "r", "e", "s", "p", "o", "n", "s", "e", ".", "b", "o", "d", "y", "#", "/", "i", "d", "}">>, <<"u", "s", "e", "r", "_", "{", "$", "r", "e", "s", "p", "o", "n", "s", "e", ".", "b", "o", "d", "y", "#", "/", "i", "d", "}">>, <<"{", "$", "r", "e", "s", "p", "o", "n", "s", "e", ".", "b", "o", "d", "y", "#", "/", "n", "o", "n", "e", "}">>,
    <<"$", "r", "e", "q", "u", "e", "s", "t", ".", "p", "a", "t", "h", ".", "i", "d">>, <<"$", "r", "e", "q", "u", "e", "s", "t", ".", "q", "u", "e", "r", "y", ".", "u", "s", "e", "r", "-", "i", "d">>, <<"$", "r", "e", "s", "p", "o", "n", "s", "e", ".", "p", "a", "t", "h", ".", "i", "d">>,
    <<"{", "$", "r", "e", "q", "u", "e", "s", "t", ".", "p", "a", "t", "h", ".", "i", "d", "}">>,
    S_url, S_method, S_statusCode, <<"$", "r", "e", "q", "u", "e", "s", "t", ".", "h", "e", "a", "d", "e", "r", ".", "a", "c", "c", "e", "p", "t">>,
    <<"$", "r", "e", "s", "p", "o", "n", "s", "e", ".", "h", "e", "a", "d", "e", "r", ".", "c", "o", "n", "t", "e", "n", "t", "-", "t", "y", "p", "e">>, <<"a", "b", "c">>, <<"$", "f", "o", "o">>, <<"a", "}", "b">> }

LinkConfig(value, itemArgs) ==
  CallConfig([ItemField EXCEPT !.argsFromLink = <<Link(S_id, value)>>],
             DefaultOptions, UndefinedSource, NoContext, itemArgs, ItemOk)

LinkConfigs == {LinkConfig(value, itemArgs) : value \in LinkValues, itemArgs \in {EmptyObject, ItemArgs}}

(* Defaults: the schema of the query parameter user-id, inline or through   *)
(* a reference, its default value, and whether the caller passes it.        *)
DefaultValues ==
  {Undefined, Str(<<"5">>), Num(<<"5">>), Num(<<"0">>), Str(<<>>), [k |-> "bool", s |-> <<"f", "a", "l", "s", "e">>],
   [k |-> "bool", s |-> <<"t", "r", "u", "e">>], Null}

S_schemaRef == <<"#", "/", "c", "o", "m", "p", "o", "n", "e", "n", "t", "s", "/", "s", "c", "h", "e", "m", "a", "s", "/", "n">>

DefaultConfig(kind, default, supplied, simple) ==
  CallConfig(
    [ItemField EXCEPT
       !.operation = [@ EXCEPT
          !.parameters = <<Param(S_id, "path"),
                           [Param(S_userId, "query") EXCEPT
                              !.schema = [kind |-> kind,
                                          ref |-> IF kind = "ref" THEN S_schemaRef ELSE <<>>,
                                          default |-> IF kind = "inline" THEN default
                                                      ELSE Undefined]]>>,
          !.oas = [schemas |-> IF kind = "ref" THEN (S_schemaRef :> default) ELSE EmptyObject]]],
    [DefaultOptions EXCEPT !.simpleNames = simple],
    UndefinedSource, NoContext,
    IF supplied THEN ItemArgs @@ (sanitize(S_userId, IF simple THEN "simple" ELSE "camelCase") :> Str(<<"8">>))
    ELSE ItemArgs,
    ItemOk)

DefaultConfigs ==
  {DefaultConfig("none", Undefined, supplied, FALSE) : supplied \in BOOLEAN}
  \cup {DefaultConfig(kind, default, supplied, simple) :
          kind \in {"inline", "ref"}, default \in DefaultValues,
          supplied \in BOOLEAN, simple \in BOOLEAN}

(* Responses: the status codes around 200..299 with a JSON body, a body     *)
(* that is no JSON, and whether error extensions are provided.              *)
StatusCodes == {199, 200, 204, 299, 300, 404, 500}

ItemResponses ==
  {Response(statusCode, JsonHeaders, body) :
     statusCode \in StatusCodes, body \in {ObjectText1(S_id, <<"1">>), S_html, <<"4", "2">>}}

ResponseConfig(extensions) ==
  CallConfig(ItemField, [DefaultOptions EXCEPT !.provideErrorExtensions = extensions],
             UndefinedSource, NoContext, ItemArgs, ItemResponses)

ResponseConfigs == {ResponseConfig(extensions) : extensions \in BOOLEAN}

(* Content types: the response content type the operation declares, if any, *)
(* and 2xx responses with and without a content-type header.                *)
S_charset == <<";", " ", "c", "h", "a", "r", "s", "e", "t", "=", "u", "t", "f", "-", "8">>

ReceivedHeaders ==
  {EmptyObject, OtherHeaders}
  \cup {(S_contentType :> Str(contentType)) :
          contentType \in {S_applicationJson, S_applicationJson \o S_charset, S_textPlain,
                           S_textPlain \o S_charset, <<"j", "s", "o", "n">>, <<"t", "e", "x", "t", "/", "h", "t", "m", "l">>, <<>>}}

TypedResponses ==
  {Response(statusCode, headers, body) :
     statusCode \in {200, 204}, headers \in ReceivedHeaders,
     body \in {ObjectText1(S_id, <<"1">>), S_html}}

ContentTypeConfig(declared, contentType) ==
  CallConfig([ItemField EXCEPT !.operation.hasResponseContentType = declared,
                               !.operation.responseContentType = contentType],
             DefaultOptions, UndefinedSource, NoContext, ItemArgs, TypedResponses)

ContentTypeConfigs ==
  {ContentTypeConfig(FALSE, <<>>), ContentTypeConfig(TRUE, S_applicationJson),
   ContentTypeConfig(TRUE, S_textPlain)}

(* Limit: the option addLimitArgument, whether the operation declares a     *)
(* parameter named limit itself, the limit the caller passes, if any, and   *)
(* responses that are lists of 0 .. MaxListLen objects or one object.       *)
IntText(k) == IF k < 0 THEN <<"-">> \o DigitText(0 - k) ELSE DigitText(k)

LimitArgs == {ItemArgs} \cup {ItemArgs @@ (S_limit :> Num(IntText(k))) : k \in (0 - 2)..(MaxListLen + 1)}

ListResponses ==
  {OkJson(ArrayText(n)) : n \in 0..MaxListLen} \cup {OkJson(ObjectText1(S_id, <<"1">>))}

LimitConfig(addLimitArgument, declared, itemArgs) ==
  CallConfig([ItemField EXCEPT
                !.operation.parameters = IF declared THEN @ \o <<Param(S_limit, "query")>> ELSE @],
             [DefaultOptions EXCEPT !.addLimitArgument = addLimitArgument],
             UndefinedSource, NoContext, itemArgs, ListResponses)

LimitConfigs ==
  {LimitConfig(addLimitArgument, declared, itemArgs) :
     addLimitArgument \in BOOLEAN, declared \in BOOLEAN, itemArgs \in LimitArgs}

(* Status: the link parameter $statusCode under a parent whose request is   *)
(* answered with 200 or with 201.                                           *)
StatusConfigs ==
  {[LinkConfig(S_statusCode, EmptyObject) EXCEPT
      !.responses[<<K_user>>] = {Response(statusCode, JsonHeaders, UserDocument) :
                                    statusCode \in {200, 201}}]}

(* Braces: a link parameter that holds the expression of the id of the      *)
(* parent result in braces, alone, after a constant, and twice, under a     *)
(* parent result whose id is a number or a text with dollar signs.          *)
S_bracedId == <<"{">> \o S_responseBodyHash \o <<"/", "i", "d", "}">>

BracedValues == {S_bracedId, <<"u", "s", "e", "r", "_">> \o S_bracedId, S_bracedId \o <<"-">> \o S_bracedId}

BraceConfigs ==
  {[LinkConfig(value, EmptyObject) EXCEPT
      !.responses[<<K_user>>] = {OkJson(ObjectText1(S_id, id)) :
                                    id \in {<<"4", "2">>, S_dollarAmp, S_dollars}}] :
     value \in BracedValues}

CallConfigs ==
  StatusConfigs \cup BraceConfigs \cup HeaderConfigs \cup AuthConfigs \cup LinkConfigs \cup DefaultConfigs \cup ResponseConfigs
  \cup ContentTypeConfigs \cup LimitConfigs

CallInit ==
  /\ cfg \in CallConfigs
  /\ calls = [c \in cfg.calls |-> IdleCall]
  /\ dataMaps = <<>>
  /\ input = NoInput
  /\ output = NoOutput

SpecCall == CallInit /\ [][Next]_vars

(***************************************************************************)
(* Translation of a document.  createGraphQLSchema, the preprocessor and   *)
(* the schema assembler are not part of the source at hand, which holds    *)
(* only the tests that call them; they follow the description of the       *)
(* library: one Operation per path and declared HTTP verb in document      *)
(* order, GET operations become fields of Query and all others fields of   *)
(* Mutation, a field is named from method and path by sanitize, a name     *)
(* already taken gets a numeric suffix in first-seen order, and a          *)
(* translation with no operation or with an empty root fails.              *)
(***************************************************************************)
S_put == <<"p", "u", "t">>
S_delete == <<"d", "e", "l", "e", "t", "e">>
S_parameters == <<"p", "a", "r", "a", "m", "e", "t", "e", "r", "s">>

HttpMethods == {S_get, S_put, S_post, S_delete}
isHttpMethod(method) == method \in HttpMethods

(* The keys a path item can hold, in the order of the document *)
PathItemKeys == <<S_get, S_post, S_put, S_parameters>>

(* for (let method in oas.paths[path]) if (method === 'get') oasGetCount++ *)
oasGetCount(oas) ==
  Cardinality({<<i, method>> \in (1..Len(oas.paths)) \X {S_get} : method \in oas.paths[i].item})

(* if (Oas3Tools.isHttpMethod(method) && method !== 'get') oasMutCount++ *)
oasMutCount(oas) ==
  Cardinality({<<i, method>> \in (1..Len(oas.paths)) \X HttpMethods :
                 method \in oas.paths[i].item /\ method # S_get})

PathOperations(pathItem) ==
  LET Declared(key) == key \in pathItem.item /\ isHttpMethod(key)
      methods == SelectSeq(PathItemKeys, Declared)
  IN  [i \in 1..Len(methods) |->
         [path |-> pathItem.path, method |-> methods[i], isMutation |-> methods[i] # S_get]]

RECURSIVE Preprocess(_)
Preprocess(paths) ==
  IF paths = <<>> THEN <<>> ELSE PathOperations(Head(paths)) \o Preprocess(Tail(paths))

OperationName(operation) ==
  sanitize(IF operation.isMutation THEN operation.method \o operation.path ELSE operation.path,
           "camelCase")

RECURSIVE UniqueName(_, _, _)
UniqueName(name, taken, n) ==
  LET candidate == IF n = 1 THEN name ELSE name \o DigitText(n)
  IN  IF candidate \in taken THEN UniqueName(name, taken, n + 1) ELSE candidate

AddField_Overwrite(fields, operation) ==
  (OperationName(operation) :> operation) @@ fields

AddField(fields, operation) ==
  fields @@ (UniqueName(OperationName(operation), DOMAIN fields, 1) :> operation)

RECURSIVE Assemble(_, _)
Assemble(operations, roots) ==
  IF operations = <<>> THEN roots
  ELSE LET operation == Head(operations)
       IN  Assemble(Tail(operations),
                    IF operation.isMutation
                    THEN [roots EXCEPT !.Mutation = AddField(@, operation)]
                    ELSE [roots EXCEPT !.Query = AddField(@, operation)])

NoRoots == [Query |-> EmptyObject, Mutation |-> EmptyObject]

Created(operations, roots) ==
  IF operations = <<>> \/ roots.Query = EmptyObject \/ roots.Mutation = EmptyObject
  THEN [done |-> TRUE, st |-> "ConfigurationError", schema |-> NoRoots]
  ELSE [done |-> TRUE, st |-> "ok", schema |-> roots]

createGraphQLSchema(oas) ==
  Created(Preprocess(oas.paths), Assemble(Preprocess(oas.paths), NoRoots))

(* The documents: MaxPaths paths, two of them with the same sanitized name, *)
(* each with any of the keys of a path item.                                *)
MaxPaths == 2
PathNames == <<<<"/", "a">>, <<"/", "a", "/">>, <<"/", "b">>>>

Documents ==
  {[kind |-> "oas",
    paths |-> [i \in 1..MaxPaths |-> [path |-> PathNames[i], item |-> items[i]]]] :
     items \in [1..MaxPaths -> SUBSET {PathItemKeys[j] : j \in 1..Len(PathItemKeys)}]}

(* beforeAll: createGraphQLSchema(oas).then(({schema}) => createdSchema = schema) *)
Translate ==
  /\ input.kind = "oas"
  /\ ~output.done
  /\ output' = createGraphQLSchema(input)
  /\ UNCHANGED <<cfg, calls, dataMaps, input>>

SchemaInit ==
  /\ cfg = TreeConfig
  /\ calls = [c \in cfg.calls |-> IdleCall]
  /\ dataMaps = <<>>
  /\ input \in Documents
  /\ output = NoOutput

SchemaNext == Translate

SpecSchema == SchemaInit /\ [][SchemaNext]_vars

(***************************************************************************)
(* getResolver: a custom resolver of the options is returned in place of   *)
(* the synthesized one.                                                    *)
(***************************************************************************)
(* A function value, told from the others by its name *)
JsFunction(name) == [k |-> "fn", s |-> name]
S_resolverF == <<"f">>
S_resolverG == <<"g">>
JsObject(props) == [k |-> "obj", s |-> S_objectObject, props |-> props]

(* typeof v *)
TypeOf(v) ==
  CASE v.k = "undef" -> "undefined"
    [] v.k \in {"null", "obj"} -> "object"
    [] v.k = "fn" -> "function"
    [] v.k = "str" -> "string"
    [] OTHER -> "number"

(* v[key]: a TypeError on undefined and null, the property of an object,   *)
(* undefined on a string or a function for the keys at hand.               *)
Property(v, key) ==
  IF v.k \in {"undef", "null"} THEN Thrown("TypeError", FALSE)
  ELSE IF v.k = "obj" /\ key \in DOMAIN v.props THEN Resolved(v.props[key])
  ELSE Resolved(Undefined)

Synthesized == [done |-> TRUE, st |-> "ok", custom |-> FALSE, resolver |-> Undefined]
Custom(resolver) == [done |-> TRUE, st |-> "ok", custom |-> TRUE, resolver |-> resolver]
GetResolverThrows(kind) == [done |-> TRUE, st |-> kind, custom |-> FALSE, resolver |-> Undefined]

(* The chain typeof a === 'object' && typeof a[key] ..., one link at a time: *)
(* value is the operand whose type the link tests, keys the keys of the     *)
(* links that follow.                                                       *)
RECURSIVE CustomResolverChain(_, _)
CustomResolverChain(value, keys) ==
  IF keys = <<>>
  THEN IF TypeOf(value) = "function" THEN Custom(value) ELSE Synthesized
  ELSE IF TypeOf(value) # "object" THEN Synthesized
  ELSE LET next == Property(value, Head(keys))
       IN  IF next.st # "ok" THEN GetResolverThrows(next.st)
           ELSE CustomResolverChain(next.v, Tail(keys))

getResolver(operation, data) ==
  CustomResolverChain(data.options.customResolvers,
                      <<operation.oas.info.title, operation.path, operation.method>>)

(* The inputs: an operation of one of two titles, paths and methods, and   *)
(* custom resolvers that hold one chain title, path, method down to a      *)
(* value, cut short at any level by a value that is no object, or two      *)
(* functions under the two methods of one path.                            *)
S_titleA == <<"A">>
S_titleB == <<"B">>
S_pathA == <<"/", "a">>
S_pathB == <<"/", "b">>
Titles == {S_titleA, S_titleB}
Paths == {S_pathA, S_pathB}
Methods == {S_get, S_post}

NoObjects == {Null, Str(S_get), JsFunction(S_resolverF)}
MethodValues == NoObjects \cup {Undefined, JsFunction(S_resolverG), JsObject(EmptyObject)}

Chains(keys, below) == {JsObject(key :> value) : key \in keys, value \in below}

CustomResolvers ==
  LET methodLevel == NoObjects \cup Chains(Methods, MethodValues)
      pathLevel == NoObjects \cup Chains(Paths, methodLevel)
  IN  {Undefined} \cup NoObjects \cup Chains(Titles, pathLevel)
      \cup {JsObject(title :> JsObject(path :>
               JsObject((S_get :> JsFunction(S_resolverF)) @@ (S_post :> JsFunction(S_resolverG))))) :
              title \in Titles, path \in Paths}

ResolverInputs ==
  {[kind |-> "getResolver",
    operation |-> [oas |-> [info |-> [title |-> title]], path |-> path, method |-> method],
    data |-> [options |-> [customResolvers |-> customResolvers]]] :
     title \in Titles, path \in Paths, method \in Methods, customResolvers \in CustomResolvers}

GetResolver ==
  /\ input.kind = "getResolver"
  /\ ~output.done
  /\ output' = getResolver(input.operation, input.data)
  /\ UNCHANGED <<cfg, calls, dataMaps, input>>

ResolverInit ==
  /\ cfg = TreeConfig
  /\ calls = [c \in cfg.calls |-> IdleCall]
  /\ dataMaps = <<>>
  /\ input \in ResolverInputs
  /\ output = NoOutput

ResolverNext == GetResolver

SpecResolver == ResolverInit /\ [][ResolverNext]_vars

(***************************************************************************)
(* extractRequestDataFromArgs applied on its own.  The inputs: a path      *)
(* template without the placeholder of id, with it, and with it twice; up  *)
(* to MaxParams parameters out of a path, a query, a header and two cookie *)
(* parameters; arguments for any of them under their sanitized names, the  *)
(* one of id a plain text or a text with a dollar sign; both case styles.  *)
(***************************************************************************)
MaxParams == 2
S_xKey == <<"x", "-", "k", "e", "y">>
S_sid == <<"s", "i", "d">>
S_tok == <<"t", "o", "k">>

ExtractPaths == {<<"/", "i", "t", "e", "m", "s">>, <<"/", "i", "t", "e", "m", "s", "/", "{", "i", "d", "}">>, <<"/", "i", "t", "e", "m", "s", "/", "{", "i", "d", "}", "/", "o", "f", "/", "{", "i", "d", "}">>}

ExtractParams ==
  {Param(S_id, "path"), Param(S_userId, "query"), Param(S_xKey, "header"),
   Param(S_sid, "cookie"), Param(S_tok, "cookie")}

ParameterLists == UNION {[1..n -> ExtractParams] : n \in 0..MaxParams}

ExtractArgs(supplied, idValue, caseStyle) ==
  [key \in {sanitize(name, caseStyle) : name \in supplied} |->
     IF key = S_id THEN Str(idValue) ELSE Str(<<"v">>)]

ExtractInputs ==
  {[kind |-> "extract", path |-> path, parameters |-> parameters,
    args |-> ExtractArgs(supplied, idValue, IF simpleNames THEN "simple" ELSE "camelCase"),
    data |-> [options |-> [DefaultOptions EXCEPT !.simpleNames = simpleNames]]] :
     path \in ExtractPaths, parameters \in ParameterLists,
     supplied \in SUBSET {S_id, S_userId, S_xKey, S_sid, S_tok},
     idValue \in {<<"7">>, <<"a", "$", "&", "b">>, <<"$", "$">>}, simpleNames \in BOOLEAN}

Extract ==
  /\ input.kind = "extract"
  /\ ~output.done
  /\ output' = [done |-> TRUE,
                result |-> extractRequestDataFromArgs(input.path, input.parameters,
                                                      input.args, input.data)]
  /\ UNCHANGED <<cfg, calls, dataMaps, input>>

ExtractInit ==
  /\ cfg = TreeConfig
  /\ calls = [c \in cfg.calls |-> IdleCall]
  /\ dataMaps = <<>>
  /\ input \in ExtractInputs
  /\ output = NoOutput

ExtractNext == Extract

SpecExtract == ExtractInit /\ [][ExtractNext]_vars

(***************************************************************************)
(* The identifiers of paths.  The inputs are two paths of up to MaxDepth   *)
(* keys; a key is a field name or alias (a GraphQL name) or the index of   *)
(* an element of a list, the first and the last key of a path are names.   *)
(* The resolver of the parent field stores its record under getIdentifier  *)
(* of its own path and the resolver of the field looks it up under         *)
(* getParentIdentifier of its path.                                        *)
(***************************************************************************)
MaxDepth == 3
FieldNames == {<<"a">>, <<"a", "b">>, <<"_", "1">>}
ListIndices == {<<"0">>, <<"1", "0">>}

FieldPaths ==
  {path \in UNION {[1..n -> FieldNames \cup ListIndices] : n \in 1..MaxDepth} :
     path[1] \in FieldNames /\ path[Len(path)] \in FieldNames}

(* The path of the field whose result holds the source of the field at     *)
(* path: path.prev without the indices at its end                          *)
RECURSIVE DropIndices(_)
DropIndices(path) ==
  IF path # <<>> /\ path[Len(path)] \in ListIndices
  THEN DropIndices(SubSeq(path, 1, Len(path) - 1)) ELSE path

ParentFieldPath(path) == DropIndices(SubSeq(path, 1, Len(path) - 1))

PathInputs ==
  {[kind |-> "paths", path |-> path, other |-> other] : path \in FieldPaths, other \in FieldPaths}

Identify ==
  /\ input.kind = "paths"
  /\ ~output.done
  /\ output' = [done |-> TRUE,
                identifier |-> getIdentifier([path |-> input.path]),
                otherIdentifier |-> getIdentifier([path |-> input.other]),
                parentIdentifier |-> getParentIdentifier([path |-> input.path]),
                stored |-> IF Len(input.path) > 1
                           THEN getIdentifier([path |-> ParentFieldPath(input.path)])
                           ELSE <<>>]
  /\ UNCHANGED <<cfg, calls, dataMaps, input>>

IdentifierInit ==
  /\ cfg = TreeConfig
  /\ calls = [c \in cfg.calls |-> IdleCall]
  /\ dataMaps = <<>>
  /\ input \in PathInputs
  /\ output = NoOutput

IdentifierNext == Identify

SpecIdentifier == IdentifierInit /\ [][IdentifierNext]_vars

(***************************************************************************)
(* Properties.                                                             *)
(***************************************************************************)
Returned(c) == calls[c].status = "returned"
WasInvoked(c) == calls[c].status # "idle"
HasParentCall(c) == Len(c) > 1 /\ ParentCall(c) \in cfg.calls

(* The data maps the hidden records of the result of call c hold *)
MapsOf(c) == {calls[c].result.elems[i].oatg.data : i \in 1..Len(calls[c].result.elems)}

(* C1: a resolver invocation never changes the hidden record carried by an  *)
(* already-returned result: the data map of every returned result equals    *)
(* what it was when its resolver returned it, and no data map is shared by  *)
(* the results of two invocations.                                          *)
C1_HiddenRecordUnchanged ==
  /\ \A c \in cfg.calls :
       Returned(c) =>
         \A i \in 1..Len(calls[c].result.elems) :
           dataMaps[calls[c].result.elems[i].oatg.data] = calls[c].recordAtReturn[i]
  /\ \A c1, c2 \in cfg.calls :
       (c1 # c2 /\ Returned(c1) /\ Returned(c2)) => MapsOf(c1) \cap MapsOf(c2) = {}

(* C2: the ResolutionContext a resolver recovers from its parent result is  *)
(* the one recorded by the invocation that produced that parent result.     *)
C2_RecoversOwnAncestor ==
  \A c \in cfg.calls :
    (HasParentCall(c) /\ WasInvoked(c)) =>
      calls[c].recovered = JsonCopyResolveData(calls[ParentCall(c)].resolveData)

Dispatched(c) == calls[c].sent = 1
OperationOf(c) == FieldOf(c).operation
HasHiddenRecord(source) == source.isObject /\ source.hasOatg

(* C3: in every dispatched request the accept header is the declared        *)
(* response content type (application/json when none is declared) and, for  *)
(* a method other than GET, the content-type header is the declared payload *)
(* content type (application/json when none is declared).                   *)
C3_ContentHeadersFixed ==
  \A c \in cfg.calls :
    Dispatched(c) =>
      /\ GetKey(calls[c].options.headers, S_accept) =
           Str(IF OperationOf(c).hasResponseContentType
               THEN OperationOf(c).responseContentType ELSE S_applicationJson)
      /\ OperationOf(c).method # S_get =>
           GetKey(calls[c].options.headers, S_contentType) =
             Str(IF OperationOf(c).hasPayloadContentType
                 THEN OperationOf(c).payloadContentType ELSE S_applicationJson)

(* The schemes among the security requirements of call c for which the      *)
(* source of c carries credentials, by position in the declaration.         *)
SuppliedAt(c) ==
  {i \in 1..Len(OperationOf(c).securityRequirements) :
     /\ HasHiddenRecord(SourceOf(c))
     /\ SourceOf(c).oatg.hasSecurity
     /\ sanitize(OperationOf(c).securityRequirements[i], "camelCase")
          \in DOMAIN SourceOf(c).oatg.security}

(* C4: an invocation for an operation with security requirements, the       *)
(* caller having supplied credentials for none of them, fails with the      *)
(* authentication error and dispatches no request, whatever the parent      *)
(* value is.                                                                *)
C4_NoCredentialsNoDispatch ==
  \A c \in cfg.calls :
    (WasInvoked(c) /\ Len(OperationOf(c).securityRequirements) > 0 /\ SuppliedAt(c) = {}) =>
      /\ calls[c].status = "failed"
      /\ calls[c].error = "MissingAuthentication"
      /\ ~Dispatched(c)

(* The request carries the credentials of a scheme where the scheme says:   *)
(* the API key in the header, query string or cookie the scheme names, the  *)
(* basic credentials usr:pw as base64 in Authorization.                     *)
ApiKeyOf(scheme) == Str(<<"k", "-">> \o scheme)

Carries(options, scheme) ==
  CASE scheme = S_keyA -> GetKey(options.headers, <<"X", "-", "K", "e", "y">>) = ApiKeyOf(scheme)
    [] scheme = S_acceptKey -> GetKey(options.headers, S_accept) = ApiKeyOf(scheme)
    [] scheme = S_queryD -> GetKey(options.qs, <<"a", "p", "i", "_", "k", "e", "y">>) = ApiKeyOf(scheme)
    [] scheme = S_cookieC -> GetKey(options.headers, S_cookie) = Str(<<"s", "i", "d", "=", "k", "-">> \o scheme)
    [] scheme = S_basicB -> GetKey(options.headers, S_Authorization) = Str(<<"B", "a", "s", "i", "c", " ", "d", "X", "N", "y", "O", "n", "B", "3">>)

CarriesNothingOf(options, scheme) ==
  CASE scheme = S_keyA -> <<"X", "-", "K", "e", "y">> \notin DOMAIN options.headers
    [] scheme = S_acceptKey -> GetKey(options.headers, S_accept) # ApiKeyOf(scheme)
    [] scheme = S_queryD -> <<"a", "p", "i", "_", "k", "e", "y">> \notin DOMAIN options.qs
    [] scheme = S_cookieC -> S_cookie \notin DOMAIN options.headers
    [] scheme = S_basicB -> S_Authorization \notin DOMAIN options.headers

Least(positions) == CHOOSE i \in positions : \A j \in positions : i <= j

CarriesOnly(options, securityRequirements, first) ==
  /\ Carries(options, securityRequirements[first])
  /\ \A i \in 1..Len(securityRequirements) :
       i # first => CarriesNothingOf(options, securityRequirements[i])

LinksOf(c) == FieldOf(c).argsFromLink
SaneParamName(name) == sanitize(name, ParamCaseStyle(cfg.data.options))
S_responsePointer == S_responseBodyHash \o <<"/">>
S_requestPointer == S_requestBodyHash \o <<"/">>

(* C6: for a link parameter whose value is exactly $response.body#/p, p a   *)
(* property of the parent result, the argument the resolver uses is the     *)
(* value of p in the parent result, and the request it dispatches has that  *)
(* value in the place of the path parameter.                                *)
C6_ResponseBodyPointer ==
  \A c \in cfg.calls :
    WasInvoked(c) /\ SourceOf(c).isObject =>
      \A i \in 1..Len(LinksOf(c)) :
        \A p \in DOMAIN SourceOf(c).fields :
          LinksOf(c)[i].value = S_responsePointer \o p =>
            /\ Dispatched(c)
            /\ calls[c].args[SaneParamName(LinksOf(c)[i].name)] = SourceOf(c).fields[p]
            /\ calls[c].options.url =
                 FieldOf(c).baseUrl
                 \o ReplaceFirst(OperationOf(c).path, <<"{">> \o LinksOf(c)[i].name \o <<"}">>,
                                 JsToString(SourceOf(c).fields[p]))

(* The parent result has id 42, the link value is $response.body#/id, the   *)
(* argument is 42 and the request goes to /items/42                         *)
C6_Witness ==
  \E c \in cfg.calls :
    /\ Dispatched(c)
    /\ Len(c) > 1
    /\ SourceOf(c).fields[S_id] = Str(<<"4", "2">>)
    /\ LinksOf(c) = <<Link(S_id, <<"$", "r", "e", "s", "p", "o", "n", "s", "e", ".", "b", "o", "d", "y", "#", "/", "i", "d">>)>>
    /\ calls[c].args[S_id] = Str(<<"4", "2">>)
    /\ calls[c].options.url = <<"h", "t", "t", "p", ":", "/", "/", "a", "p", "i", "/", "i", "t", "e", "m", "s", "/", "4", "2">>

(* A body pointer that selects nothing: a property the parent result does   *)
(* not have, a parent result that is no object, or any property of the      *)
(* payload of the parent request, which is never an object here             *)
ZeroMatchPointer(c, value) ==
  \/ /\ StartsWith(value, S_responsePointer)
     /\ HasNoBrace(value)
     /\ ~ /\ SourceOf(c).isObject
          /\ SubSeq(value, Len(S_responsePointer) + 1, Len(value)) \in DOMAIN SourceOf(c).fields
  \/ /\ StartsWith(value, S_requestPointer)
     /\ HasNoBrace(value)

(* C7: a link parameter whose body pointer selects nothing is logged and    *)
(* left out: the resolver warns, the argument stays what the caller passed, *)
(* and the request is dispatched.                                           *)
C7_ZeroMatchOmitted ==
  \A c \in cfg.calls :
    WasInvoked(c) =>
      \A i \in 1..Len(LinksOf(c)) :
        ZeroMatchPointer(c, LinksOf(c)[i].value) =>
          /\ calls[c].warned
          /\ Dispatched(c)
          /\ GetKey(calls[c].args, SaneParamName(LinksOf(c)[i].name)) =
               GetKey(cfg.args[c], SaneParamName(LinksOf(c)[i].name))

(* A runtime expression on $request. or $response. whose location is none   *)
(* of header, query, path, body                                             *)
UnsupportedLocation(expr) ==
  \E prefix \in {S_requestDot, S_responseDot} :
    /\ StartsWith(expr, prefix)
    /\ \A i \in 1..Len(RUNTIME_REFERENCES) : ~StartsWith(expr, prefix \o RUNTIME_REFERENCES[i])

RefersToUnsupportedLocation(value) ==
  IF HasNoBrace(value) THEN UnsupportedLocation(value)
  ELSE \E i \in 1..Len(BraceMatches(value)) :
         UnsupportedLocation(SubSeq(BraceMatches(value)[i], 2, Len(BraceMatches(value)[i]) - 1))

(* C8: a link parameter that refers to an unsupported location, as the      *)
(* whole value or inside braces, makes the invocation fail and dispatch no  *)
(* request.                                                                 *)
C8_UnsupportedLocationFails ==
  \A c \in cfg.calls :
    WasInvoked(c) =>
      \A i \in 1..Len(LinksOf(c)) :
        RefersToUnsupportedLocation(LinksOf(c)[i].value) =>
          calls[c].status = "failed" /\ ~Dispatched(c)

(* The default the schema of a parameter declares, inline or through $ref;  *)
(* undefined when it declares none                                          *)
DeclaredDefault(c, param) ==
  CASE param.schema.kind = "inline" -> param.schema.default
    [] param.schema.kind = "ref" -> GetKey(OperationOf(c).oas.schemas, param.schema.ref)
    [] OTHER -> Undefined

(* C9: a parameter absent from the arguments of the caller whose schema     *)
(* declares a default is given that default, whatever the default is, and   *)
(* an argument the caller supplied is kept.                                 *)
C9_DefaultsInjected ==
  \A c \in cfg.calls :
    (WasInvoked(c) /\ LinksOf(c) = <<>>) =>
      \A i \in 1..Len(OperationOf(c).parameters) :
        LET param == OperationOf(c).parameters[i]
            name == SaneParamName(param.name)
        IN  IF name \in DOMAIN cfg.args[c]
            THEN GetKey(calls[c].args, name) = cfg.args[c][name]
            ELSE DeclaredDefault(c, param).k \notin {"undef", "null"} =>
                   GetKey(calls[c].args, name) = DeclaredDefault(c, param)

FailureStatus(statusCode) == statusCode < 200 \/ statusCode > 299

(* C10: a response with a status below 200 or above 299 makes the resolver  *)
(* fail without data; with provideErrorExtensions the extensions of the     *)
(* error are the method and the path of the operation, the status code and  *)
(* the headers received, and the body received: parsed when it is JSON, as  *)
(* received otherwise.                                                      *)
C10_FailureStatusFails ==
  \A c \in cfg.calls :
    (calls[c].responded /\ FailureStatus(calls[c].response.statusCode)) =>
      /\ calls[c].status = "failed"
      /\ calls[c].result = NoResult
      /\ cfg.data.options.provideErrorExtensions =>
           /\ calls[c].hasExtensions
           /\ calls[c].extensions.method = OperationOf(c).method
           /\ calls[c].extensions.path = OperationOf(c).path
           /\ calls[c].extensions.statusCode = calls[c].response.statusCode
           /\ calls[c].extensions.responseHeaders = calls[c].response.headers
           /\ \/ /\ calls[c].response.body = ObjectText1(S_id, <<"1">>)
                 /\ calls[c].extensions.parsed
                 /\ calls[c].extensions.responseBody = JsonObject(S_id :> Str(<<"1">>))
              \/ /\ calls[c].response.body = <<"4", "2">>
                 /\ calls[c].extensions.parsed
                 /\ calls[c].extensions.responseBody = JsonPrim(Num(<<"4", "2">>))
              \/ /\ calls[c].response.body = S_html
                 /\ ~calls[c].extensions.parsed
                 /\ calls[c].extensions.rawBody = S_html

(* A 404 with a JSON body and provideErrorExtensions *)
C10_Witness ==
  \E c \in cfg.calls :
    /\ calls[c].status = "failed"
    /\ calls[c].responded
    /\ calls[c].response.statusCode = 404
    /\ calls[c].hasExtensions
    /\ calls[c].extensions.statusCode = 404
    /\ calls[c].extensions.method = S_get
    /\ calls[c].extensions.path = <<"/", "i", "t", "e", "m", "s", "/", "{", "i", "d", "}">>
    /\ calls[c].extensions.responseBody = JsonObject(S_id :> Str(<<"1">>))

Succeeded(statusCode) == statusCode >= 200 /\ statusCode <= 299

(* t occurs in s *)
Occurs(t, s) == \E i \in 0..(Len(s) - Len(t)) : SubSeq(s, i + 1, i + Len(t)) = t

(* The content type a response carries: the text of a content-type header   *)
(* that is not empty                                                        *)
CarriesContentType(response) ==
  S_contentType \in DOMAIN response.headers /\ response.headers[S_contentType].s # <<>>

(* C11: a 2xx response with a content-type header whose content type        *)
(* neither contains nor is contained in the declared response content type  *)
(* makes the resolver fail and return no body; a received content type that *)
(* is the declared one followed by a suffix is not refused, and with a JSON *)
(* body the resolver returns.                                               *)
C11_ContentTypeMismatchFails ==
  \A c \in cfg.calls :
    (/\ calls[c].responded
     /\ Succeeded(calls[c].response.statusCode)
     /\ CarriesContentType(calls[c].response)
     /\ OperationOf(c).hasResponseContentType) =>
      LET received == calls[c].response.headers[S_contentType].s
          declared == OperationOf(c).responseContentType
      IN  /\ (~Occurs(declared, received) /\ ~Occurs(received, declared)) =>
               calls[c].status = "failed" /\ calls[c].result = NoResult
          /\ (\E i \in 0..Len(received) : received = declared \o SubSeq(received, i + 1, Len(received))) =>
               /\ calls[c].error # "ContentTypeMismatch"
               /\ (declared = S_applicationJson /\ calls[c].response.body = ObjectText1(S_id, <<"1">>)) =>
                    calls[c].status = "returned"
               /\ declared # S_applicationJson =>
                    calls[c].status = "returned" /\ calls[c].result.raw = calls[c].response.body

(* Declared application/json, received text/plain: failed without a body    *)
C11_Witness ==
  \E c \in cfg.calls :
    /\ calls[c].responded
    /\ calls[c].response.statusCode = 200
    /\ OperationOf(c).hasResponseContentType
    /\ OperationOf(c).responseContentType = S_applicationJson
    /\ calls[c].response.headers = (S_contentType :> Str(S_textPlain))
    /\ calls[c].status = "failed"
    /\ calls[c].result = NoResult

(* C12: a 2xx response without a content-type header is a null success when *)
(* the operation declares no response content type, and only then: when it  *)
(* declares one the resolver fails.                                         *)
C12_MissingContentType ==
  \A c \in cfg.calls :
    (/\ calls[c].responded
     /\ Succeeded(calls[c].response.statusCode)
     /\ S_contentType \notin DOMAIN calls[c].response.headers) =>
      IF OperationOf(c).hasResponseContentType
      THEN calls[c].status = "failed" /\ calls[c].result = NoResult
      ELSE calls[c].status = "returned" /\ calls[c].result.kind = "null"

(* Both cases: a null success without a declared content type, a failure    *)
(* with one                                                                 *)
C12_Witness ==
  \E c \in cfg.calls :
    /\ calls[c].responded
    /\ calls[c].response.headers = EmptyObject
    /\ calls[c].response.statusCode = 204
    /\ ~OperationOf(c).hasResponseContentType
    /\ calls[c].status = "returned"
    /\ calls[c].result.kind = "null"

(* The fields of the elements of the result of call c *)
ResultFields(c) == [i \in 1..Len(calls[c].result.elems) |-> calls[c].result.elems[i].fields]

AutoLimit(c) ==
  /\ cfg.data.options.addLimitArgument
  /\ \A i \in 1..Len(OperationOf(c).parameters) : OperationOf(c).parameters[i].name # S_limit

(* C13: with addLimitArgument, no declared limit parameter and a JSON       *)
(* response that is a list of n objects, the limit k >= 0 of the caller     *)
(* gives the first min(k, n) elements in their order, and a limit below 0   *)
(* makes the resolver fail and return no data.                              *)
C13_LimitTruncates ==
  \A c \in cfg.calls :
    (calls[c].responded /\ AutoLimit(c) /\ S_limit \in DOMAIN cfg.args[c]) =>
      \A n \in 0..MaxListLen, k \in (0 - 2)..(MaxListLen + 1) :
        (calls[c].response = OkJson(ArrayText(n)) /\ cfg.args[c][S_limit] = Num(IntText(k))) =>
          IF k >= 0
          THEN /\ calls[c].status = "returned"
               /\ ResultFields(c) = SubSeq(UsersArray(n), 1, IF k < n THEN k ELSE n)
          ELSE /\ calls[c].status = "failed"
               /\ calls[c].result = NoResult

(* Call c failed before the request was handed to the transport *)
FailedBeforeRequest(c) ==
  /\ calls[c].status = "failed"
  /\ ~calls[c].responded
  /\ calls[c].error # "TransportError"

(* C14: every invocation hands at most one request to the transport, and    *)
(* exactly one when the request was built and authenticated; a transport    *)
(* call that fails ends the invocation with that failure, without data and  *)
(* without another request.                                                 *)
C14_SingleRequest ==
  /\ [](\A c \in cfg.calls :
          /\ calls[c].sent <= 1
          /\ WasInvoked(c) => (calls[c].sent = IF FailedBeforeRequest(c) THEN 0 ELSE 1)
          /\ calls[c].error = "TransportError" =>
               /\ calls[c].status = "failed"
               /\ calls[c].result = NoResult
               /\ ~calls[c].responded)
  /\ [][\A c \in cfg.calls :
          /\ calls[c].sent # calls'[c].sent =>
               calls[c].status = "idle" /\ calls'[c].status = "pending"
          /\ calls[c].status = "failed" => calls'[c] = calls[c]]_vars

(* A request was sent once and the transport rejected it *)
C14_Witness ==
  \E c \in cfg.calls :
    calls[c].sent = 1 /\ calls[c].status = "failed" /\ calls[c].error = "TransportError"

(* C15: in every translated document the Query root has as many fields as   *)
(* the document has GET operations and the Mutation root as many as it has  *)
(* operations of the other HTTP methods.                                    *)
C15_OneFieldPerOperation ==
  (input.kind = "oas" /\ output.done /\ output.st = "ok") =>
    /\ Cardinality(DOMAIN output.schema.Query) = oasGetCount(input)
    /\ Cardinality(DOMAIN output.schema.Mutation) = oasMutCount(input)

(* A translated document with two GET operations whose names collide and    *)
(* more than one operation of another method                                *)
C15_Witness ==
  /\ input.kind = "oas" /\ output.done /\ output.st = "ok"
  /\ oasGetCount(input) = 2
  /\ oasMutCount(input) > 1
  /\ S_parameters \in input.paths[1].item

(* The custom resolvers hold a value for exactly the title, the path and    *)
(* the method of the operation                                              *)
HasEntry(customResolvers, operation) ==
  /\ customResolvers.k = "obj"
  /\ operation.oas.info.title \in DOMAIN customResolvers.props
  /\ customResolvers.props[operation.oas.info.title].k = "obj"
  /\ operation.path \in DOMAIN customResolvers.props[operation.oas.info.title].props
  /\ customResolvers.props[operation.oas.info.title].props[operation.path].k = "obj"
  /\ operation.method
       \in DOMAIN customResolvers.props[operation.oas.info.title].props[operation.path].props

EntryOf(customResolvers, operation) ==
  customResolvers.props[operation.oas.info.title].props[operation.path].props[operation.method]

(* C16: getResolver returns the function the options register for exactly   *)
(* the title, path and method of the operation, and a synthesized resolver  *)
(* for every other operation: no entry, an entry under another title, path  *)
(* or method, or an entry that is not a function.                           *)
C16_CustomResolverReturned ==
  (input.kind = "getResolver" /\ output.done) =>
    LET customResolvers == input.data.options.customResolvers
    IN  IF /\ HasEntry(customResolvers, input.operation)
           /\ EntryOf(customResolvers, input.operation).k = "fn"
        THEN /\ output.st = "ok" /\ output.custom
             /\ output.resolver = EntryOf(customResolvers, input.operation)
        ELSE output.st = "ok" /\ ~output.custom

(* The decimal text of an HTTP status code *)
StatusText(statusCode) ==
  DigitText(statusCode \div 100) \o DigitText((statusCode \div 10) % 10)
  \o DigitText(statusCode % 10)

(* C17: the used status code of the record attached to a result is the      *)
(* status of the response that gave the result, and a link parameter        *)
(* $statusCode of a child takes the status the request of its parent        *)
(* received.                                                                *)
C17_UsedStatusCodeReceived ==
  \A c \in cfg.calls :
    /\ Returned(c) =>
         \A i \in 1..Len(calls[c].recordAtReturn) :
           JsToString(calls[c].recordAtReturn[i][getIdentifier([path |-> c])].usedStatusCode)
             = StatusText(calls[c].response.statusCode)
    /\ (HasParentCall(c) /\ WasInvoked(c)) =>
         \A i \in 1..Len(LinksOf(c)) :
           LinksOf(c)[i].value = S_statusCode =>
             JsToString(calls[c].args[SaneParamName(LinksOf(c)[i].name)])
               = StatusText(calls[ParentCall(c)].response.statusCode)

(* Every occurrence of pat in s replaced by the text rep, taken literally *)
RECURSIVE ReplaceEvery(_, _, _)
ReplaceEvery(s, pat, rep) ==
  LET i == IndexOf(s, pat)
  IN  IF i = 0 THEN s
      ELSE SubSeq(s, 1, i - 1) \o rep \o ReplaceEvery(SubSeq(s, i + Len(pat), Len(s)), pat, rep)

SaneNameIn(param, data) == sanitize(param.name, ParamCaseStyle(data.options))

(* The parameters of the list that have an argument and the location in *)
Present(parameters, args, data, in) ==
  LET Has(param) == param.in = in /\ SaneNameIn(param, data) \in DOMAIN args
  IN  SelectSeq(parameters, Has)

ValuesOf(present, args, data) ==
  [name \in {present[i].name : i \in 1..Len(present)} |->
     args[sanitize(name, ParamCaseStyle(data.options))]]

RECURSIVE PathWith(_, _, _, _)
PathWith(path, present, args, data) ==
  IF present = <<>> THEN path
  ELSE PathWith(ReplaceEvery(path, <<"{">> \o Head(present).name \o <<"}">>,
                             JsToString(args[SaneNameIn(Head(present), data)])),
                Tail(present), args, data)

RECURSIVE CookiePairs(_, _, _)
CookiePairs(present, args, data) ==
  IF present = <<>> THEN <<>>
  ELSE Head(present).name \o <<"=">> \o JsToString(args[SaneNameIn(Head(present), data)])
       \o <<";", " ">> \o CookiePairs(Tail(present), args, data)

(* C18: extractRequestDataFromArgs puts every declared parameter that has   *)
(* an argument under its sanitized name into the request under its own name *)
(* and in its location: every placeholder of a path parameter is replaced   *)
(* by the value, query parameters are in qs, header parameters in headers,  *)
(* cookie parameters in one cookie header as name=value; pairs in the order *)
(* of declaration; parameters without an argument add nothing, and the path *)
(* template and the arguments passed in stay as they were.                  *)
C18_ParametersPlaced ==
  /\ [](( input.kind = "extract" /\ output.done) =>
         LET cookies == Present(input.parameters, input.args, input.data, "cookie")
             headers == ValuesOf(Present(input.parameters, input.args, input.data, "header"),
                                 input.args, input.data)
         IN  /\ output.result.path =
                  PathWith(input.path, Present(input.parameters, input.args, input.data, "path"),
                           input.args, input.data)
             /\ output.result.qs =
                  ValuesOf(Present(input.parameters, input.args, input.data, "query"),
                           input.args, input.data)
             /\ output.result.headers =
                  IF cookies = <<>> THEN headers
                  ELSE SetKey(headers, S_cookie, Str(CookiePairs(cookies, input.args, input.data))))
  /\ [][input.kind = "extract" => input' = input]_vars

(* C19: a link parameter that mixes constants with the braced expression of *)
(* a property of the parent result gives the argument that has the value of *)
(* the property in the place of every braced expression and every other     *)
(* character as it was, whatever the value is and however often the         *)
(* expression occurs.                                                       *)
C19_BracedExpressionsReplaced ==
  \A c \in cfg.calls :
    (HasParentCall(c) /\ WasInvoked(c)) =>
      \A i \in 1..Len(LinksOf(c)) :
        (/\ SourceOf(c).isObject
         /\ S_id \in DOMAIN SourceOf(c).fields
         /\ Includes(LinksOf(c)[i].value, S_bracedId)
         /\ HasNoBrace(ReplaceEvery(LinksOf(c)[i].value, S_bracedId, <<>>))) =>
          /\ Dispatched(c)
          /\ calls[c].args[SaneParamName(LinksOf(c)[i].name)] =
               Str(ReplaceEvery(LinksOf(c)[i].value, S_bracedId,
                                JsToString(SourceOf(c).fields[S_id])))

(* The field names and aliases of a path, in order *)
NamesOf(path) ==
  LET IsName(key) == key \in FieldNames
  IN  SelectSeq(path, IsName)

(* C20: the identifier the resolver of a field looks its parent up by is    *)
(* the identifier the resolver of the parent field stored its record under, *)
(* also through list indices; two paths with the same names and aliases     *)
(* have the same identifier whatever their list indices are, and two paths  *)
(* that differ in a name or alias have different identifiers.               *)
C20_IdentifiersAgree ==
  (input.kind = "paths" /\ output.done) =>
    /\ Len(input.path) > 1 =>
         output.parentIdentifier.ok /\ output.parentIdentifier.id = output.stored
    /\ NamesOf(input.path) = NamesOf(input.other) =>
         output.identifier = output.otherIdentifier
    /\ NamesOf(input.path) # NamesOf(input.other) =>
         output.identifier # output.otherIdentifier

(* The parent of the field is a list, and the other path goes through       *)
(* another element of it                                                    *)
C20_Witness ==
  /\ input.kind = "paths" /\ output.done
  /\ Len(input.path) = MaxDepth
  /\ input.path[2] \in ListIndices
  /\ input.other # input.path
  /\ NamesOf(input.path) = NamesOf(input.other)
  /\ output.parentIdentifier.id = output.stored
  /\ output.identifier = output.otherIdentifier

====
